---- MODULE Spec2Model ----
(***************************************************************************)
(* Workflow execution backend (server/prefect-worker).                     *)
(*                                                                         *)
(* The module models                                                       *)
(*   - the layered engine  flows/workflow_flow_optimized.py                *)
(*       analyze_workflow_dependencies, get_execution_layers,              *)
(*       merge_inputs, execute_node_task, workflow_flow_optimized;         *)
(*   - the cancel endpoint of api_service.py (cancel_execution), which     *)
(*     runs concurrently with a flow and shares the workflow_executions    *)
(*     row with it;                                                        *)
(*   - the branch filter of the legacy flow, flows/workflow_flow.py        *)
(*     (get_next_nodes).                                                   *)
(*                                                                         *)
(* Specifications                                                          *)
(*   Spec        one run of the layered engine with concurrent cancel      *)
(*               requests, over every graph within MaxNodes/MaxConns;      *)
(*   SpecData    the same flow without cancel requests, over graphs whose  *)
(*               connections carry fromPort and outputType labels;         *)
(*   SpecRefs    the same flow over graphs whose connections may reference  *)
(*               node ids that no node has;                                *)
(*   SpecLive    Spec with fairness of the flow and of its task runs;      *)
(*   SpecPlan    the dependency analyzer and the layer planner applied to  *)
(*               every graph within PlanMaxNodes/PlanMaxConns;             *)
(*   SpecFilter  get_next_nodes applied to every node, connection list and *)
(*               handler result within FilterMaxNodes/FilterMaxConns;      *)
(*   SpecMerge   merge_inputs applied to every list of at most              *)
(*               MergeMaxConns connections into one node and every list of *)
(*               results of its three parents;                             *)
(*   SpecStart   find_starting_nodes of the legacy flow applied to every   *)
(*               graph within StartMaxNodes/StartMaxConns;                 *)
(*   SpecOrder   the planner called twice on a graph and once on a         *)
(*               reordered listing of the same graph, within               *)
(*               OrderMaxNodes/OrderMaxConns.                              *)
(*                                                                         *)
(* Modelling assumptions: execute_node_task.submit starts a task run that  *)
(* proceeds concurrently with the flow, and awaiting the future's result   *)
(* blocks until that run has returned (the behaviour the flow's comments   *)
(* rely on).  The SQLite store never fails and every payload is            *)
(* JSON-serialisable, so log_node_execution never raises and the Prefect   *)
(* retry of execute_node_task (retries=1) is never triggered: the task     *)
(* body catches every exception of the handler itself.  Node ids are       *)
(* unique within a workflow; handlers are external: a handler invocation   *)
(* either raises or returns a result dict, chosen freely.                  *)
(***************************************************************************)
EXTENDS Integers, Sequences, FiniteSets, TLC

(* ------------------------------ bounds --------------------------------- *)
MaxNodes == 3
MaxConns == 2
PlanMaxNodes == 4
PlanMaxConns == 3
FilterMaxNodes == 2
FilterMaxConns == 2
MergeMaxConns == 3
RefsMaxNodes == 2
RefsMaxConns == 2
StartMaxNodes == 2
StartMaxConns == 2
OrderMaxNodes == 3
OrderMaxConns == 2
DispatchMaxNodes == 2
DispatchMaxConns == 1
JoinMaxRecords == 2
LegacyMaxNodes == 3
LegacyMaxConns == 2
RecursionLimit == 4

VARIABLES
  nodes,          \* workflow_data['nodes']: sequence of [id, type, config]
  connections,    \* workflow_data['connections']: sequence of connection records
  inputs,         \* the run's top-level inputs (a payload)
  status,         \* workflow_executions.status
  error,          \* workflow_executions.error
  startedAt,      \* workflow_executions.startedAt is set
  completedAt,    \* workflow_executions.completedAt is set
  nodeResults,    \* workflow_executions.nodeResults (the stored result map)
  execution_logs, \* execution_logs rows, per nodeId, in insertion order
  pc,             \* position of the flow / of the function under study
  exc,            \* exception travelling to the flow's except clause
  dependencies,   \* local of workflow_flow_optimized
  layers,         \* local of workflow_flow_optimized
  layer_idx,      \* loop index of the layer loop (1-based)
  layer_tasks,    \* local list of (node_id, task_future) of the current layer
  collect_idx,    \* position of the await loop in layer_tasks (1-based)
  node_results,   \* local dict nodeId -> result, in insertion order
  task,           \* the task runs created by execute_node_task.submit; the
                  \* field invoked records whether a handler was awaited
  dispatch_count, \* history: number of submits per node id
  cancel_pc,      \* position of a cancel_execution request
  cancel_ret,     \* response of the last cancel_execution request
  cancel_layer,   \* history: layer being executed when a cancel was stored
  fn_args,        \* arguments of the function under study (SpecPlan, SpecFilter)
  fn_ret,         \* its return value
  starting_nodes, \* legacy flow: ids of the nodes find_starting_nodes returned
  start_idx,      \* legacy flow: position of the loop over starting_nodes
  call_stack      \* legacy flow: the active calls of execute_from_node

vars == <<nodes, connections, inputs, status, error, startedAt, completedAt,
          nodeResults, execution_logs, pc, exc, dependencies, layers, layer_idx,
          layer_tasks, collect_idx, node_results, task, dispatch_count,
          cancel_pc, cancel_ret, cancel_layer, fn_args, fn_ret,
          starting_nodes, start_idx, call_stack>>

(* ------------------------- generic helpers ----------------------------- *)
Range(s) == {s[i] : i \in 1..Len(s)}

BoundedSeq(S, n) == UNION {[1..k -> S] : k \in 0..n}

SelectIdx(s, Test(_)) ==
  LET F[i \in 0..Len(s)] ==
        IF i = 0 THEN <<>>
        ELSE IF Test(i) THEN Append(F[i-1], s[i]) ELSE F[i-1]
  IN F[Len(s)]

(* ------------------------------ payloads ------------------------------- *)
(* A JSON value.  Every value has the same three fields so that values of  *)
(* different shapes can be compared: kind is "dict", "list", "scalar" or   *)
(* "none"; scalar is the text of a scalar; dict maps the keys of a dict    *)
(* (the positions "0", "1", ... of a list) to values.                      *)
NoFields == [k \in {} |-> 0]
None == [kind |-> "none", scalar |-> "", dict |-> NoFields]
Scalar(s) == [kind |-> "scalar", scalar |-> s, dict |-> NoFields]
Dict(f) == [kind |-> "dict", scalar |-> "", dict |-> f]
List(f) == [kind |-> "list", scalar |-> "", dict |-> f]
EmptyDict == Dict(NoFields)
IsDict(p) == p.kind = "dict"
HasKey(p, k) == IsDict(p) /\ k \in DOMAIN p.dict

DictSet_replace(p, k, v) == Dict([x \in {k} |-> v])

\* d[k] = v on a dict payload
DictSet(p, k, v) ==
  Dict([x \in (DOMAIN p.dict) \cup {k} |-> IF x = k THEN v ELSE p.dict[x]])

DictUpdate_keepfirst(p, q) ==
  Dict([x \in (DOMAIN p.dict) \cup (DOMAIN q.dict) |->
          IF x \in DOMAIN p.dict THEN p.dict[x] ELSE q.dict[x]])

\* d.update(q) on dict payloads
DictUpdate(p, q) ==
  Dict([x \in (DOMAIN p.dict) \cup (DOMAIN q.dict) |->
          IF x \in DOMAIN q.dict THEN q.dict[x] ELSE p.dict[x]])

\* Python truthiness of a JSON value
Truthy(p) ==
  CASE p.kind = "none" -> FALSE
    [] p.kind = "scalar" -> p.scalar \notin {"", "0", "false"}
    [] OTHER -> DOMAIN p.dict # {}

(* ------------------------------- graphs -------------------------------- *)
\* a node with its config ("config" not in node reads as None)
NodeWithConfig(i, t, c) == [id |-> i, type |-> t, config |-> c]
Node(i, t) == NodeWithConfig(i, t, None)
Conn(u, v, port, ot) ==
  [fromNodeId |-> u, toNodeId |-> v, fromPort |-> port, outputType |-> ot]

NodeIds(ns) == {ns[i].id : i \in 1..Len(ns)}

\* next((n for n in nodes if n['id'] == node_id), None)
NodeById(ns, id) == ns[CHOOSE i \in 1..Len(ns) :
                          /\ ns[i].id = id
                          /\ \A j \in 1..(i-1) : ns[j].id # id]

Edges(cs) == {<<cs[i].fromNodeId, cs[i].toNodeId>> : i \in 1..Len(cs)}

\* the connections only reference existing node ids
ValidRefs(ns, cs) ==
  \A i \in 1..Len(cs) :
     cs[i].fromNodeId \in NodeIds(ns) /\ cs[i].toNodeId \in NodeIds(ns)

\* u reaches v over at least one connection (independent of the planner)
RECURSIVE ReachIn(_, _, _, _)
ReachIn(E, u, v, k) ==
  IF k = 0 THEN FALSE
  ELSE \/ <<u, v>> \in E
       \/ \E e \in E : e[1] = u /\ ReachIn(E, e[2], v, k - 1)

Acyclic(ns, cs) ==
  \A u \in NodeIds(ns) : ~ReachIn(Edges(cs), u, u, Len(ns))

(* ------------------- Dependency Analyzer, Layer Planner ---------------- *)
\* workflow_flow_optimized.py, analyze_workflow_dependencies
analyze_workflow_dependencies(ns, cs) ==
  [id \in NodeIds(ns) |->
     LET into == SelectIdx(cs, LAMBDA i : cs[i].toNodeId = id)
     IN [i \in 1..Len(into) |-> into[i].fromNodeId]]

\* dependencies.get(node_id, [])
DepsOf(deps, id) == IF id \in DOMAIN deps THEN deps[id] ELSE <<>>

LayerReady_any(deps, processed, id) ==
  \/ DepsOf(deps, id) = <<>>
  \/ \E i \in 1..Len(DepsOf(deps, id)) : DepsOf(deps, id)[i] \in processed

LayerReady_first(deps, processed, id) ==
  \/ DepsOf(deps, id) = <<>>
  \/ DepsOf(deps, id)[1] \in processed

\* all(dep in processed for dep in node_deps)
LayerReady(deps, processed, id) ==
  \A i \in 1..Len(DepsOf(deps, id)) : DepsOf(deps, id)[i] \in processed

RECURSIVE LayerLoop_noraise(_, _, _, _)
LayerLoop_noraise(deps, processed, remaining, acc) ==
  IF remaining = {} THEN [raised |-> FALSE, layers |-> acc]
  ELSE LET current_layer == {id \in remaining : LayerReady(deps, processed, id)}
       IN IF current_layer = {}
            THEN [raised |-> FALSE, layers |-> acc]
            ELSE LayerLoop_noraise(deps, processed \cup current_layer,
                                   remaining \ current_layer,
                                   Append(acc, current_layer))

RECURSIVE LayerLoop_single(_, _, _, _)
LayerLoop_single(deps, processed, remaining, acc) ==
  IF remaining = {} THEN [raised |-> FALSE, layers |-> acc]
  ELSE LET ready == {id \in remaining : LayerReady(deps, processed, id)}
       IN IF ready = {}
            THEN [raised |-> TRUE, layers |-> acc]
            ELSE LET current_layer == {CHOOSE id \in ready : TRUE}
                 IN LayerLoop_single(deps, processed \cup current_layer,
                                     remaining \ current_layer,
                                     Append(acc, current_layer))

\* the while loop of get_execution_layers; a layer is kept as the set of its
\* ids: the order of current_layer is the iteration order of a Python set,
\* which the flow action SubmitNode chooses freely
RECURSIVE LayerLoop(_, _, _, _)
LayerLoop(deps, processed, remaining, acc) ==
  IF remaining = {} THEN [raised |-> FALSE, layers |-> acc]
  ELSE LET current_layer == {id \in remaining : LayerReady(deps, processed, id)}
       IN IF current_layer = {}
            THEN [raised |-> TRUE, layers |-> acc]
            ELSE LayerLoop(deps, processed \cup current_layer,
                           remaining \ current_layer,
                           Append(acc, current_layer))

get_execution_layers(ns, deps) == LayerLoop(deps, {}, NodeIds(ns), <<>>)

CircularDependency == [kind |-> "circular_dependency", ids |-> <<>>]
NoError == [kind |-> "none", ids |-> <<>>]
CancelledByUser == [kind |-> "cancelled_by_user", ids |-> <<>>]
NodesFailed(ids) == [kind |-> "nodes_failed", ids |-> ids]

\* index of the layer that holds id, 0 when none does
LayerIndex(ls, id) ==
  IF \E i \in 1..Len(ls) : id \in ls[i]
    THEN CHOOSE i \in 1..Len(ls) : id \in ls[i]
    ELSE 0

(* ---------------------------- Input Merger ----------------------------- *)
\* the value a task run returns to the flow (execute_node_task, return dicts)
TaskResult(ok, id, out, err) ==
  [success |-> ok, nodeId |-> id, output |-> out, error |-> err]
NoResult == TaskResult(FALSE, 0, None, "")

\* next((r for r in parent_results if r['nodeId'] == conn['fromNodeId']), None)
HasParentResult(parent_results, id) ==
  \E i \in 1..Len(parent_results) : parent_results[i].nodeId = id
ParentResult(parent_results, id) ==
  parent_results[CHOOSE i \in 1..Len(parent_results) :
                    /\ parent_results[i].nodeId = id
                    /\ \A j \in 1..(i-1) : parent_results[j].nodeId # id]

ParentUsable_any(parent_result) == TRUE

\* parent_result.get('success'), lines 207 and 219
ParentUsable(parent_result) == parent_result.success

OutputDataOf_raw(output) == output

\* if isinstance(output, dict) and 'outputData' in output: output['outputData']
OutputDataOf(output) ==
  IF HasKey(output, "outputData") THEN output.dict["outputData"] ELSE output

\* body of the loop over incoming_connections in the multi-input case
MergeStep(merged_input, parent_results, conn) ==
  IF /\ HasParentResult(parent_results, conn.fromNodeId)
     /\ ParentUsable(ParentResult(parent_results, conn.fromNodeId))
    THEN LET output_data ==
               OutputDataOf(ParentResult(parent_results, conn.fromNodeId).output)
         IN CASE conn.outputType = "A" -> DictSet(merged_input, "inputA", output_data)
              [] conn.outputType = "B" -> DictSet(merged_input, "inputB", output_data)
              [] OTHER -> IF IsDict(output_data)
                            THEN DictUpdate(merged_input, output_data)
                            ELSE merged_input
    ELSE merged_input

\* workflow_flow_optimized.py, merge_inputs
merge_inputs(parent_results, cs, node_id) ==
  LET incoming_connections == SelectIdx(cs, LAMBDA i : cs[i].toNodeId = node_id)
      Fold[i \in 0..Len(incoming_connections)] ==
        IF i = 0 THEN EmptyDict
        ELSE MergeStep(Fold[i-1], parent_results, incoming_connections[i])
  IN IF Len(incoming_connections) = 0 THEN EmptyDict
     ELSE IF Len(incoming_connections) = 1
       THEN IF /\ HasParentResult(parent_results, incoming_connections[1].fromNodeId)
               /\ ParentUsable(ParentResult(parent_results,
                                             incoming_connections[1].fromNodeId))
              THEN OutputDataOf(ParentResult(parent_results,
                                  incoming_connections[1].fromNodeId).output)
              ELSE EmptyDict
       ELSE Fold[Len(incoming_connections)]

(* ----------------- node_results: dict in insertion order --------------- *)
InResults(results, id) == \E i \in 1..Len(results) : results[i].nodeId = id
ResultOf(results, id) ==
  results[CHOOSE i \in 1..Len(results) : results[i].nodeId = id]

\* node_results[node_id] = result
ResultsSet(results, id, r) ==
  IF InResults(results, id)
    THEN [i \in 1..Len(results) |-> IF results[i].nodeId = id THEN r ELSE results[i]]
    ELSE Append(results, r)

ResolveInput_anylayer(node_id, deps, results, cs, run_inputs, idx) ==
  LET parent_node_ids == DepsOf(deps, node_id)
      present == SelectIdx(parent_node_ids,
                           LAMBDA i : InResults(results, parent_node_ids[i]))
      parent_results == [i \in 1..Len(present) |-> ResultOf(results, present[i])]
      input_data ==
        IF Len(parent_node_ids) > 0 /\ Len(parent_results) = 0
          THEN run_inputs
          ELSE merge_inputs(parent_results, cs, node_id)
  IN IF ~Truthy(input_data) THEN run_inputs ELSE input_data

\* lines 297-309 of workflow_flow_optimized: the input of one node of a layer
ResolveInput(node_id, deps, results, cs, run_inputs, idx) ==
  LET parent_node_ids == DepsOf(deps, node_id)
      present == SelectIdx(parent_node_ids,
                           LAMBDA i : InResults(results, parent_node_ids[i]))
      parent_results == [i \in 1..Len(present) |-> ResultOf(results, present[i])]
      input_data ==
        IF Len(parent_node_ids) > 0 /\ Len(parent_results) = 0
          THEN IF idx = 1 THEN run_inputs ELSE EmptyDict
          ELSE merge_inputs(parent_results, cs, node_id)
  IN IF idx = 1 /\ ~Truthy(input_data) THEN run_inputs ELSE input_data

(* --------------------------- Task Dispatcher --------------------------- *)
\* tasks/node_handlers.py, the keys of NODE_HANDLERS
NODE_HANDLERS ==
  {"trigger", "manualInput", "output", "http", "llm", "condition", "addField",
   "join", "webhook", "comment", "python", "fetchData", "excelInput",
   "pdfInput", "saveRecords", "mysql", "sendEmail", "sendSMS", "sendSlack",
   "sendDiscord", "sendTeams", "sendTelegram", "googleSheets",
   "dataVisualization", "esios", "climatiq", "splitColumns", "humanApproval",
   "opcua", "mqtt", "modbus", "scada", "mes", "dataHistorian",
   "timeSeriesAggregator"}

\* the node types the graphs are built from: one registered type and one
\* type that has no handler
RunTypes == {"condition", "customWidget"}
RunPorts == {"", "true", "false"}
RunOutputTypes == {"", "A", "B"}

\* the payload a handler of node id produces: it names its producer
OutputOf(id) == Dict([k \in {"x"} |-> Scalar(ToString(id))])

\* a handler's return value: {success, outputData[, conditionResult]}
HandlerReturn(id, cond) ==
  Dict([k \in {"success", "outputData"} \cup
              (IF cond = "" THEN {} ELSE {"conditionResult"}) |->
          CASE k = "success" -> Scalar("true")
            [] k = "outputData" -> OutputOf(id)
            [] OTHER -> Scalar(cond)])

\* what a handler invocation can do: raise, or return with or without a
\* conditionResult (handlers are external collaborators)
HandlerOutcomes(id) ==
  {[raised |-> TRUE, ret |-> None]} \cup
  {[raised |-> FALSE, ret |-> HandlerReturn(id, c)] : c \in {"", "true", "false"}}

\* execute_node_task, lines 132-138: the handler is awaited only when the
\* registry has one for the node's type
HandlerInvoked(node) == node.type \in NODE_HANDLERS

InvokeOutcomes_passthrough(node) ==
  IF node.type \notin NODE_HANDLERS
    THEN {[raised |-> FALSE, ret |-> HandlerReturn(node.id, "")]}
    ELSE HandlerOutcomes(node.id)

\* execute_node_task, lines 131-142: registry lookup, then the handler
InvokeOutcomes(node) ==
  IF node.type \notin NODE_HANDLERS
    THEN {[raised |-> TRUE, ret |-> None]}
    ELSE HandlerOutcomes(node.id)

\* node_handlers.py, the retries argument of each handler's @task decorator
Retries2 == {"http", "llm", "sendEmail", "sendSMS", "esios", "climatiq",
             "sendDiscord", "sendTeams", "googleSheets", "sendTelegram",
             "sendSlack"}
Retries1 == {"python", "opcua", "mqtt", "modbus", "scada", "mes",
             "dataHistorian", "fetchData", "saveRecords", "mysql"}
HandlerRetries(type) ==
  IF type \in Retries2 THEN 2 ELSE IF type \in Retries1 THEN 1 ELSE 0

RetryAllowed_never(type, invocations) == FALSE

\* a task declared with retries = k is run again after an invocation raised
\* while fewer than k invocations have raised before it
RetryAllowed(type, invocations) == invocations < HandlerRetries(type)

\* handle_python, lines 359-366: the user code reported an error; the handler
\* returns success False and passes its input on, without raising
SoftFailures(node, input_data) ==
  IF node.type = "python"
    THEN {[raised |-> FALSE,
           ret |-> Dict([k \in {"success", "error", "outputData"} |->
                    CASE k = "success" -> Scalar("false")
                      [] k = "error" -> Scalar("user code")
                      [] OTHER -> input_data])]}
    ELSE {}

\* execute_node_task, the two return statements
execute_node_task_result(id, outcome) ==
  IF outcome.raised
    THEN TaskResult(FALSE, id, None, "exception")
    ELSE TaskResult(TRUE, id, outcome.ret, "")

\* status of the terminal log row written by execute_node_task
TerminalLogStatus(outcome) == IF outcome.raised THEN "failed" ELSE "completed"

HasCondition(r) == HasKey(r.output, "conditionResult")
ConditionOf(r) == r.output.dict["conditionResult"].scalar = "true"

(* --------------------------- Run Coordinator --------------------------- *)
TerminalStatus == {"completed", "failed", "cancelled"}

NoTask == [state |-> "none", input |-> None, result |-> NoResult,
           invoked |-> FALSE, invocations |-> 0, last |-> "none"]

\* the graphs: ids 1..n with the given node types, at most one of them
\* without handler, and at most MaxConns connections between them with the
\* given port and output-type labels
InitGraph(types, ports, output_types) ==
  \E n \in 0..MaxNodes :
    /\ nodes \in [1..n -> {Node(i, t) : i \in 1..n, t \in types}]
    /\ \A i \in 1..n : nodes[i].id = i
    /\ Cardinality({i \in 1..n : nodes[i].type \notin NODE_HANDLERS}) <= 1
    /\ connections \in
         BoundedSeq({Conn(u, v, p, ot) : u \in 1..n, v \in 1..n,
                                        p \in ports, ot \in output_types},
                    MaxConns)

RunInputs == Dict([k \in {"in"} |-> Scalar("run")])

\* no log rows, no task runs, nothing computed by a flow yet
InitRunLocals ==
  /\ error = NoError
  /\ startedAt = FALSE
  /\ completedAt = FALSE
  /\ nodeResults = <<>>
  /\ execution_logs = [id \in NodeIds(nodes) |-> <<>>]
  /\ exc = NoError
  /\ dependencies = <<>>
  /\ layers = <<>>
  /\ layer_idx = 0
  /\ layer_tasks = <<>>
  /\ collect_idx = 0
  /\ node_results = <<>>
  /\ task = [id \in NodeIds(nodes) |-> NoTask]
  /\ dispatch_count = [id \in NodeIds(nodes) |-> 0]
  /\ cancel_pc = "idle"
  /\ cancel_ret = "none"
  /\ cancel_layer = 0
  /\ fn_ret = <<>>
  /\ starting_nodes = <<>>
  /\ start_idx = 0
  /\ call_stack = <<>>

\* the state when a flow is entered: the row created by create_execution
\* (status pending), no log rows, no task runs
InitRunState ==
  /\ status = "pending"
  /\ pc = "pending"
  /\ fn_args = <<>>
  /\ InitRunLocals

InitRun == inputs = RunInputs /\ InitRunState

Init == InitGraph(RunTypes, {""}, {""}) /\ InitRun

graphVars == <<nodes, connections, inputs>>
rowVars == <<status, error, startedAt, completedAt, nodeResults>>
flowVars == <<pc, exc, dependencies, layers, layer_idx, layer_tasks,
              collect_idx, node_results>>
taskVars == <<task, dispatch_count, execution_logs>>
cancelVars == <<cancel_pc, cancel_ret, cancel_layer>>
fnVars == <<fn_args, fn_ret>>
legacyVars == <<starting_nodes, start_idx, call_stack>>

\* lines 263-270: UPDATE workflow_executions SET status = 'running', startedAt
FlowStart ==
  /\ pc = "pending"
  /\ status' = "running"
  /\ startedAt' = TRUE
  /\ pc' = "plan"
  /\ UNCHANGED <<legacyVars, graphVars, error, completedAt, nodeResults, exc, dependencies,
                 layers, layer_idx, layer_tasks, collect_idx, node_results,
                 taskVars, cancelVars, fnVars>>

\* lines 273-282: dependencies, layers (or the planner's ValueError)
PlanLayers ==
  /\ pc = "plan"
  /\ dependencies' = analyze_workflow_dependencies(nodes, connections)
  /\ LET r == get_execution_layers(nodes, dependencies')
     IN IF r.raised
          THEN /\ exc' = CircularDependency
               /\ pc' = "except"
               /\ UNCHANGED <<layers, layer_idx>>
          ELSE /\ layers' = r.layers
               /\ layer_idx' = IF Len(r.layers) = 0 THEN 0 ELSE 1
               /\ pc' = IF Len(r.layers) = 0 THEN "finalize" ELSE "submit"
               /\ exc' = exc
  /\ UNCHANGED <<legacyVars, graphVars, rowVars, layer_tasks, collect_idx, node_results,
                 taskVars, cancelVars, fnVars>>

Unsubmitted_all(layer_node_ids, submitted) == layer_node_ids

\* line 290, for node_id in layer_node_ids: the ids the loop has yet to visit
Unsubmitted(layer_node_ids, submitted) == layer_node_ids \ Range(submitted)

\* lines 290-326: one iteration of the loop over layer_node_ids
SubmitNode(id) ==
  /\ pc = "submit"
  /\ id \in Unsubmitted(layers[layer_idx], layer_tasks)
  /\ task' = [task EXCEPT ![id] =
                [state |-> "submitted",
                 input |-> ResolveInput(id, dependencies, node_results,
                                        connections, inputs, layer_idx),
                 result |-> NoResult,
                 invoked |-> FALSE, invocations |-> 0, last |-> "none"]]
  /\ dispatch_count' = [dispatch_count EXCEPT ![id] = @ + 1]
  /\ layer_tasks' = Append(layer_tasks, id)
  /\ IF Unsubmitted(layers[layer_idx], layer_tasks') = {}
       THEN pc' = "collect" /\ collect_idx' = 1
       ELSE UNCHANGED <<pc, collect_idx>>
  /\ UNCHANGED <<legacyVars, graphVars, rowVars, exc, dependencies, layers, layer_idx,
                 node_results, execution_logs, cancelVars, fnVars>>

LogAppend_overwrite(rows, log_status) == <<log_status>>

\* log_node_execution, lines 82-100: INSERT INTO execution_logs
LogAppend(rows, log_status) == Append(rows, log_status)

\* api_service.py get_execution_status, lines 258-261: the progress counters
\* computed from the log rows of the run
ProgressOf(logs) ==
  LET present == UNION {{<<id, i>> : i \in 1..Len(logs[id])} : id \in DOMAIN logs}
      total_nodes == Cardinality(present)
      completed_nodes ==
        Cardinality({r \in present : logs[r[1]][r[2]] = "completed"})
  IN [totalNodes |-> total_nodes,
      completedNodes |-> completed_nodes,
      failedNodes |->
        Cardinality({r \in present : logs[r[1]][r[2]] = "error"}),
      percentage |-> IF total_nodes > 0
                       THEN (completed_nodes * 100) \div total_nodes
                       ELSE 0]

\* execute_node_task, lines 114-129: the 'running' log row
TaskStart(id) ==
  /\ task[id].state = "submitted"
  /\ task' = [task EXCEPT ![id].state = "running"]
  /\ execution_logs' = [execution_logs EXCEPT ![id] = LogAppend(@, "running")]
  /\ UNCHANGED <<legacyVars, graphVars, rowVars, flowVars, dispatch_count, cancelVars, fnVars>>

\* line 138, await handler(...): an invocation of the handler raises and
\* the handler, a task declared with retries = k, is run again
HandlerRetry(id) ==
  /\ task[id].state = "running"
  /\ HandlerInvoked(NodeById(nodes, id))
  /\ RetryAllowed(NodeById(nodes, id).type, task[id].invocations)
  /\ task' = [task EXCEPT ![id].invoked = TRUE,
                          ![id].invocations = @ + 1,
                          ![id].last = "raised"]
  /\ UNCHANGED <<legacyVars, graphVars, rowVars, flowVars, dispatch_count, execution_logs,
                 cancelVars, fnVars>>

\* execute_node_task, lines 131-187: handler, terminal log row, return; an
\* exception of the handler reaches the except branch when no retry is left
TaskFinish(id) ==
  /\ task[id].state = "running"
  /\ \E outcome \in InvokeOutcomes(NodeById(nodes, id)) \cup
                     SoftFailures(NodeById(nodes, id), task[id].input) :
       /\ (outcome.raised /\ HandlerInvoked(NodeById(nodes, id))) =>
             ~RetryAllowed(NodeById(nodes, id).type, task[id].invocations)
       /\ task' = [task EXCEPT ![id].state = "returned",
                               ![id].result = execute_node_task_result(id, outcome),
                               ![id].invoked = HandlerInvoked(NodeById(nodes, id)),
                               ![id].invocations =
                                  IF HandlerInvoked(NodeById(nodes, id))
                                    THEN @ + 1 ELSE @,
                               ![id].last =
                                  IF ~HandlerInvoked(NodeById(nodes, id)) THEN @
                                  ELSE IF outcome.raised THEN "raised"
                                  ELSE "returned"]
       /\ execution_logs' =
            [execution_logs EXCEPT ![id] = LogAppend(@, TerminalLogStatus(outcome))]
  /\ UNCHANGED <<legacyVars, graphVars, rowVars, flowVars, dispatch_count, cancelVars, fnVars>>

AllAwaited_first(idx, tasks) == TRUE

\* line 330, for node_id, task_future in layer_tasks: the loop is exhausted
AllAwaited(idx, tasks) == idx >= Len(tasks)

AbortOnFailure_stop(result) == ~result.success

\* lines 336-339: a failed result is printed, the loops go on
AbortOnFailure(result) == FALSE

\* lines 330-339: one iteration of the await loop over layer_tasks; after
\* the last one the layer loop moves on (line 284) or ends
CollectResult ==
  /\ pc = "collect"
  /\ task[layer_tasks[collect_idx]].state = "returned"
  /\ LET id == layer_tasks[collect_idx]
         result == task[id].result
     IN /\ node_results' = ResultsSet(node_results, id, result)
        /\ IF AbortOnFailure(result)
             THEN /\ pc' = "finalize"
                  /\ UNCHANGED <<layer_idx, layer_tasks, collect_idx>>
             ELSE IF ~AllAwaited(collect_idx, layer_tasks)
               THEN /\ collect_idx' = collect_idx + 1
                    /\ UNCHANGED <<pc, layer_idx, layer_tasks>>
               ELSE IF layer_idx < Len(layers)
                 THEN /\ layer_idx' = layer_idx + 1
                      /\ layer_tasks' = <<>>
                      /\ collect_idx' = 0
                      /\ pc' = "submit"
                 ELSE /\ pc' = "finalize"
                      /\ UNCHANGED <<layer_idx, layer_tasks, collect_idx>>
  /\ UNCHANGED <<legacyVars, graphVars, rowVars, exc, dependencies, layers, taskVars,
                 cancelVars, fnVars>>

FailedNodes_first(results) ==
  LET failed == SelectIdx(results, LAMBDA i : ~results[i].success)
  IN IF Len(failed) = 0 THEN <<>> ELSE <<failed[1].nodeId>>

\* failed_nodes = [nid for nid, res in node_results.items() if not res.get('success')]
FailedNodes(results) ==
  LET failed == SelectIdx(results, LAMBDA i : ~results[i].success)
  IN [i \in 1..Len(failed) |-> failed[i].nodeId]

\* lines 341-358: final status and the UPDATE that stores it (SET status,
\* completedAt, error: the nodeResults column is not part of the statement)
Finalize ==
  /\ pc = "finalize"
  /\ LET failed_nodes == FailedNodes(node_results)
     IN IF Len(failed_nodes) > 0
          THEN status' = "failed" /\ error' = NodesFailed(failed_nodes)
          ELSE status' = "completed" /\ error' = NoError
  /\ completedAt' = TRUE
  /\ pc' = "done"
  /\ UNCHANGED <<legacyVars, graphVars, startedAt, nodeResults, exc, dependencies, layers,
                 layer_idx, layer_tasks, collect_idx, node_results, taskVars,
                 cancelVars, fnVars>>

FlowExceptStatus_keep(current) == current

\* lines 376-380: SET status = 'failed'
FlowExceptStatus(current) == "failed"

\* lines 371-382: the flow's except clause
FlowExcept ==
  /\ pc = "except"
  /\ status' = FlowExceptStatus(status)
  /\ completedAt' = TRUE
  /\ error' = exc
  /\ pc' = "done"
  /\ UNCHANGED <<legacyVars, graphVars, startedAt, nodeResults, exc, dependencies, layers,
                 layer_idx, layer_tasks, collect_idx, node_results, taskVars,
                 cancelVars, fnVars>>

\* the layer the flow is executing, 0 outside the layer loop
ExecutingLayer == IF pc \in {"submit", "collect"} THEN layer_idx ELSE 0

\* api_service.py cancel_execution, lines 310-325: read the row, refuse a
\* run that is neither pending nor running
CancelCheck ==
  /\ cancel_pc = "idle"
  /\ IF status \in {"pending", "running"}
       THEN cancel_pc' = "update" /\ UNCHANGED cancel_ret
       ELSE cancel_pc' = "idle" /\ cancel_ret' = "refused"
  /\ UNCHANGED <<legacyVars, graphVars, rowVars, flowVars, taskVars, cancel_layer, fnVars>>

\* cancel_execution, lines 327-341: update_execution(status="cancelled", error=...)
\* (database.py update_execution sets completedAt for completed/failed only)
CancelUpdate ==
  /\ cancel_pc = "update"
  /\ status' = "cancelled"
  /\ error' = CancelledByUser
  /\ cancel_pc' = "idle"
  /\ cancel_ret' = "ok"
  /\ cancel_layer' = IF cancel_layer = 0 THEN ExecutingLayer ELSE cancel_layer
  /\ UNCHANGED <<legacyVars, graphVars, startedAt, completedAt, nodeResults, flowVars,
                 taskVars, fnVars>>

Next ==
  \/ FlowStart
  \/ PlanLayers
  \/ \E id \in NodeIds(nodes) : SubmitNode(id)
  \/ \E id \in NodeIds(nodes) : TaskStart(id)
  \/ \E id \in NodeIds(nodes) : TaskFinish(id)
  \/ CollectResult
  \/ Finalize
  \/ FlowExcept
  \/ CancelCheck
  \/ CancelUpdate

Spec == Init /\ [][Next]_vars

(* Data flow of the layered engine: the same flow over graphs whose       *)
(* connections carry port and output-type labels, without cancel requests *)
(* (cancel_execution touches the row only, never an input or a result).   *)
InitData == InitGraph({"condition"}, RunPorts, RunOutputTypes) /\ InitRun

NextData ==
  \/ FlowStart
  \/ PlanLayers
  \/ \E id \in NodeIds(nodes) : SubmitNode(id)
  \/ \E id \in NodeIds(nodes) : TaskStart(id)
  \/ \E id \in NodeIds(nodes) : TaskFinish(id)
  \/ CollectResult
  \/ Finalize
  \/ FlowExcept

SpecData == InitData /\ [][NextData]_vars

(* The dispatcher over node types with different retry budgets: the same   *)
(* flow over small graphs of python (1 retry), http (2 retries), condition *)
(* (no retry) and customWidget (no handler) nodes.                         *)
DispatchTypes == {"python", "http", "condition", "customWidget"}

InitDispatch ==
  /\ \E n \in 0..DispatchMaxNodes :
       /\ nodes \in [1..n -> {Node(i, t) : i \in 1..n, t \in DispatchTypes}]
       /\ \A i \in 1..n : nodes[i].id = i
       /\ connections \in
            BoundedSeq({Conn(u, v, "", "") : u \in 1..n, v \in 1..n},
                       DispatchMaxConns)
  /\ InitRun

NextDispatch ==
  \/ NextData
  \/ \E id \in NodeIds(nodes) : HandlerRetry(id)

SpecDispatch == InitDispatch /\ [][NextDispatch]_vars

(* The same flow over graphs whose connections may name a node id that no  *)
(* node has: with n nodes the endpoints range over 1..n+1.                 *)
InitRefs ==
  /\ \E n \in 0..RefsMaxNodes :
       /\ nodes = [i \in 1..n |-> Node(i, "condition")]
       /\ connections \in
            BoundedSeq({Conn(u, v, "", "") : u \in 1..(n+1), v \in 1..(n+1)},
                       RefsMaxConns)
  /\ InitRun

SpecRefs == InitRefs /\ [][NextData]_vars

\* The flow runs to its end when its steps and the task runs it started are
\* not postponed forever: a handler returns or raises in finite time and the
\* event loop resumes every coroutine that can proceed.  Cancel requests may
\* arrive at any time or never.
SpecLive == Init /\ [][Next]_vars /\ WF_vars(NextData)

(* ----------------- the planner as a function (SpecPlan) ---------------- *)
\* every variable of a run, at rest: the specifications of single functions
\* leave them alone
RunAtRest ==
  /\ inputs = RunInputs
  /\ status = "pending"
  /\ error = NoError
  /\ startedAt = FALSE
  /\ completedAt = FALSE
  /\ nodeResults = <<>>
  /\ execution_logs = <<>>
  /\ exc = NoError
  /\ layer_idx = 0
  /\ layer_tasks = <<>>
  /\ collect_idx = 0
  /\ node_results = <<>>
  /\ task = <<>>
  /\ dispatch_count = <<>>
  /\ cancel_pc = "idle"
  /\ cancel_ret = "none"
  /\ cancel_layer = 0
  /\ starting_nodes = <<>>
  /\ start_idx = 0
  /\ call_stack = <<>>

\* nodes 1..n and connections whose endpoints range over 1..PlanMaxNodes: an
\* endpoint above n references no node
InitPlan ==
  /\ \E n \in 0..PlanMaxNodes :
       nodes = [i \in 1..n |-> Node(i, "condition")]
  /\ connections \in
       BoundedSeq({Conn(u, v, "", "") : u \in 1..PlanMaxNodes, v \in 1..PlanMaxNodes},
                  PlanMaxConns)
  /\ RunAtRest
  /\ pc = "analyze"
  /\ dependencies = <<>>
  /\ layers = <<>>
  /\ fn_args = <<>>
  /\ fn_ret = <<>>

\* dependencies = analyze_workflow_dependencies(nodes, connections)
AnalyzeCall ==
  /\ pc = "analyze"
  /\ dependencies' = analyze_workflow_dependencies(nodes, connections)
  /\ pc' = "layers"
  /\ UNCHANGED <<legacyVars, graphVars, rowVars, exc, layers, layer_idx, layer_tasks,
                 collect_idx, node_results, taskVars, cancelVars, fnVars>>

\* layers = get_execution_layers(nodes, dependencies), or its ValueError
LayersCall ==
  /\ pc = "layers"
  /\ LET r == get_execution_layers(nodes, dependencies)
     IN /\ fn_ret' = r
        /\ layers' = r.layers
        /\ pc' = IF r.raised THEN "raised" ELSE "returned"
  /\ UNCHANGED <<legacyVars, graphVars, rowVars, exc, dependencies, layer_idx, layer_tasks,
                 collect_idx, node_results, taskVars, cancelVars, fn_args>>

NextPlan == AnalyzeCall \/ LayersCall

SpecPlan == InitPlan /\ [][NextPlan]_vars

(* ------------------- Branch Filter (legacy flow) ----------------------- *)
PortSelected_nodefault(condition_result, from_port) ==
  \/ condition_result /\ from_port = "true"
  \/ ~condition_result /\ from_port = "false"

\* workflow_flow.py lines 71-82: the if / elif / elif chain on one connection
PortSelected(condition_result, from_port) ==
  IF condition_result /\ from_port = "true" THEN TRUE
  ELSE IF ~condition_result /\ from_port = "false" THEN TRUE
  ELSE from_port \notin {"true", "false"}

\* workflow_flow.py get_next_nodes, lines 64-84: the connections that fire
FilterOutgoing(node_id, cs, result) ==
  LET outgoing == SelectIdx(cs, LAMBDA i : cs[i].fromNodeId = node_id)
  IN IF HasKey(result, "conditionResult")
       THEN SelectIdx(outgoing,
                      LAMBDA i : PortSelected(Truthy(result.dict["conditionResult"]),
                                              outgoing[i].fromPort))
       ELSE outgoing

\* workflow_flow.py get_next_nodes
get_next_nodes(node_id, ns, cs, result) ==
  LET outgoing == FilterOutgoing(node_id, cs, result)
      next_node_ids == {outgoing[i].toNodeId : i \in 1..Len(outgoing)}
  IN SelectIdx(ns, LAMBDA i : ns[i].id \in next_node_ids)

\* the ports of SpecFilter: an absent fromPort reads as "" (conn.get)
FilterPorts == {"", "true", "false", "out"}

InitFilter ==
  /\ \E n \in 1..FilterMaxNodes :
       /\ nodes = [i \in 1..n |-> Node(i, "condition")]
       /\ connections \in
            BoundedSeq({Conn(u, v, p, "") : u \in 1..n, v \in 1..n, p \in FilterPorts},
                       FilterMaxConns)
       /\ \E id \in 1..n, c \in {"", "true", "false"} :
            fn_args = [node_id |-> id, result |-> HandlerReturn(id, c)]
  /\ RunAtRest
  /\ pc = "call"
  /\ dependencies = <<>>
  /\ layers = <<>>
  /\ fn_ret = [outgoing |-> <<>>, next_nodes |-> <<>>]

\* next_nodes = await get_next_nodes(node["id"], nodes, connections, result)
GetNextNodesCall ==
  /\ pc = "call"
  /\ fn_ret' = [outgoing |-> FilterOutgoing(fn_args.node_id, connections, fn_args.result),
                next_nodes |-> get_next_nodes(fn_args.node_id, nodes, connections,
                                              fn_args.result)]
  /\ pc' = "returned"
  /\ UNCHANGED <<legacyVars, graphVars, rowVars, exc, dependencies, layers, layer_idx,
                 layer_tasks, collect_idx, node_results, taskVars, cancelVars,
                 fn_args>>

NextFilter == GetNextNodesCall

SpecFilter == InitFilter /\ [][NextFilter]_vars

(* ------------------ the merger as a function (SpecMerge) --------------- *)
\* a handler's return value that carries the given outputData
ReturnWith(output_data) ==
  Dict([k \in {"success", "outputData"} |->
          IF k = "success" THEN Scalar("true") ELSE output_data])

\* the outputData a parent can declare: two mappings that share the key "k"
\* with the other parent's, a sequence, a scalar
MergeOutputs(id) ==
  {Dict([k \in {"k"} |-> Scalar(ToString(id))]),
   Dict([k \in {"k", ToString(id)} |-> Scalar(ToString(id))]),
   List([k \in {"0"} |-> Scalar(ToString(id))]),
   Scalar(ToString(id))}

\* the results execute_node_task can return for parent id: a failure, a
\* handler return with outputData, a handler return without it
MergeResults(id) ==
  {execute_node_task_result(id, [raised |-> TRUE, ret |-> None])} \cup
  {execute_node_task_result(id, [raised |-> FALSE, ret |-> ReturnWith(x)]) :
     x \in MergeOutputs(id)} \cup
  {execute_node_task_result(id, [raised |-> FALSE,
                                 ret |-> Dict([k \in {"raw"} |-> Scalar(ToString(id))])])}

\* the graph of SpecMerge: merge_inputs is called for node 4; nodes 1 and 2
\* have handlers, node 3 has none, so its result is always a failure
MergeNodes ==
  <<Node(1, "condition"), Node(2, "condition"), Node(3, "customWidget"),
    Node(4, "join")>>

\* the connections of SpecMerge: from node 1 or 2 into node 4 with any
\* outputType, from node 3 into node 4, and one that does not lead to node 4
MergeConns ==
  {Conn(u, 4, "", ot) : u \in {1, 2}, ot \in RunOutputTypes}
     \cup {Conn(3, 4, "", ""), Conn(1, 3, "", "")}

\* parent_results: at most one result per parent, in any order (all three in
\* ascending or descending order of the parents)
MergeParentResults ==
  LET r3 == execute_node_task_result(3, [raised |-> TRUE, ret |-> None])
  IN UNION {{<<>>, <<r1>>, <<r2>>, <<r3>>, <<r1, r2>>, <<r2, r1>>,
             <<r1, r3>>, <<r3, r1>>, <<r2, r3>>, <<r3, r2>>,
             <<r1, r2, r3>>, <<r3, r2, r1>>} :
              r1 \in MergeResults(1), r2 \in MergeResults(2)}

InitMerge ==
  /\ nodes = MergeNodes
  /\ connections \in BoundedSeq(MergeConns, MergeMaxConns)
  /\ \E prs \in MergeParentResults :
       fn_args = [parent_results |-> prs, node_id |-> 4]
  /\ RunAtRest
  /\ pc = "call"
  /\ dependencies = <<>>
  /\ layers = <<>>
  /\ fn_ret = None

\* input_data = merge_inputs(parent_results, connections, node_id)
MergeInputsCall ==
  /\ pc = "call"
  /\ fn_ret' = merge_inputs(fn_args.parent_results, connections, fn_args.node_id)
  /\ pc' = "returned"
  /\ UNCHANGED <<legacyVars, graphVars, rowVars, exc, dependencies, layers, layer_idx,
                 layer_tasks, collect_idx, node_results, taskVars, cancelVars,
                 fn_args>>

NextMerge == MergeInputsCall

SpecMerge == InitMerge /\ [][NextMerge]_vars

(* ---------------- the join handler after the merger (SpecJoin) --------- *)
\* a JSON list with the elements of the sequence seq
MkList(seq) ==
  List([k \in {ToString(i - 1) : i \in 1..Len(seq)} |->
          seq[CHOOSE i \in 1..Len(seq) : ToString(i - 1) = k]])

\* the elements of a JSON list, in order
ListItems(p) ==
  [i \in 1..Cardinality(DOMAIN p.dict) |-> p.dict[ToString(i - 1)]]

\* data_a + data_b on two lists
ListConcat(a, b) == MkList(ListItems(a) \o ListItems(b))

\* input_data.get(key, []) if input_data else []
JoinOperand(input_data, key) ==
  IF Truthy(input_data) /\ HasKey(input_data, key)
    THEN input_data.dict[key]
    ELSE MkList(<<>>)

\* node_handlers.py handle_join with the default strategy "concat": the
\* records under "A" followed by the records under "B"; + on operands that
\* are not both lists raises
handle_join(node, input_data) ==
  LET data_a == JoinOperand(input_data, "A")
      data_b == JoinOperand(input_data, "B")
  IN IF data_a.kind = "list" /\ data_b.kind = "list"
       THEN [raised |-> FALSE, ret |-> ReturnWith(ListConcat(data_a, data_b))]
       ELSE [raised |-> TRUE, ret |-> None]

\* the record lists a parent of the join node can output
JoinRecords(id) ==
  {Dict([k \in {"id"} |-> Scalar(ToString(id))]),
   Dict([k \in {"id"} |-> Scalar("shared")])}
JoinLists(id) == {MkList(seq) : seq \in BoundedSeq(JoinRecords(id), JoinMaxRecords)}

\* parents 1 and 2, join node 3
JoinNodes == <<Node(1, "condition"), Node(2, "condition"), Node(3, "join")>>

\* one connection from each parent into the join node, labelled A and B
\* either way round and declared in either order
JoinConns ==
  {<<Conn(a, 3, "", "A"), Conn(b, 3, "", "B")>> : a \in {1, 2}, b \in {1, 2}} \cup
  {<<Conn(b, 3, "", "B"), Conn(a, 3, "", "A")>> : a \in {1, 2}, b \in {1, 2}}

InitJoin ==
  /\ nodes = JoinNodes
  /\ connections \in {cs \in JoinConns : cs[1].fromNodeId # cs[2].fromNodeId}
  /\ \E x1 \in JoinLists(1), x2 \in JoinLists(2) :
       fn_args =
         [parent_results |->
            <<execute_node_task_result(1, [raised |-> FALSE, ret |-> ReturnWith(x1)]),
              execute_node_task_result(2, [raised |-> FALSE, ret |-> ReturnWith(x2)])>>,
          node_id |-> 3]
  /\ RunAtRest
  /\ pc = "merge"
  /\ dependencies = <<>>
  /\ layers = <<>>
  /\ fn_ret = [input_data |-> None, outcome |-> [raised |-> FALSE, ret |-> None]]

\* workflow_flow_optimized line 305: input_data = merge_inputs(...)
JoinMergeCall ==
  /\ pc = "merge"
  /\ fn_ret' = [fn_ret EXCEPT !.input_data =
                  merge_inputs(fn_args.parent_results, connections, fn_args.node_id)]
  /\ pc' = "handle"
  /\ UNCHANGED <<legacyVars, graphVars, rowVars, exc, dependencies, layers, layer_idx,
                 layer_tasks, collect_idx, node_results, taskVars, cancelVars,
                 fn_args>>

\* execute_node_task line 138: result = await handler(node, input_data, ...)
JoinHandlerCall ==
  /\ pc = "handle"
  /\ fn_ret' = [fn_ret EXCEPT !.outcome =
                  handle_join(NodeById(nodes, fn_args.node_id), fn_ret.input_data)]
  /\ pc' = "returned"
  /\ UNCHANGED <<legacyVars, graphVars, rowVars, exc, dependencies, layers, layer_idx,
                 layer_tasks, collect_idx, node_results, taskVars, cancelVars,
                 fn_args>>

NextJoin == JoinMergeCall \/ JoinHandlerCall

SpecJoin == InitJoin /\ [][NextJoin]_vars

(* ------------- Entry points (legacy flow, SpecStart) ------------------- *)
find_starting_nodes_rootsfirst(ns, cs) ==
  LET nodes_with_incoming == {cs[i].toNodeId : i \in 1..Len(cs)}
      root_nodes == SelectIdx(ns, LAMBDA i : /\ ns[i].id \notin nodes_with_incoming
                                             /\ ns[i].type # "comment")
      trigger_nodes == SelectIdx(ns, LAMBDA i : ns[i].type = "trigger")
      webhook_nodes == SelectIdx(ns, LAMBDA i : ns[i].type = "webhook")
      input_nodes == SelectIdx(ns, LAMBDA i : ns[i].type = "manualInput")
  IN IF Len(root_nodes) > 0 THEN [raised |-> FALSE, nodes |-> root_nodes]
     ELSE IF Len(trigger_nodes) > 0
       THEN [raised |-> FALSE, nodes |-> <<trigger_nodes[1]>>]
     ELSE IF Len(webhook_nodes) > 0
       THEN [raised |-> FALSE, nodes |-> <<webhook_nodes[1]>>]
     ELSE IF Len(input_nodes) > 0 THEN [raised |-> FALSE, nodes |-> input_nodes]
     ELSE [raised |-> TRUE, nodes |-> <<>>]

\* workflow_flow.py, find_starting_nodes: next(...) takes the first node of
\* the type; raised stands for ValueError("No starting nodes found in workflow")
find_starting_nodes(ns, cs) ==
  LET trigger_nodes == SelectIdx(ns, LAMBDA i : ns[i].type = "trigger")
      webhook_nodes == SelectIdx(ns, LAMBDA i : ns[i].type = "webhook")
      nodes_with_incoming == {cs[i].toNodeId : i \in 1..Len(cs)}
      root_nodes == SelectIdx(ns, LAMBDA i : /\ ns[i].id \notin nodes_with_incoming
                                             /\ ns[i].type # "comment")
      input_nodes == SelectIdx(ns, LAMBDA i : ns[i].type = "manualInput")
  IN IF Len(trigger_nodes) > 0
       THEN [raised |-> FALSE, nodes |-> <<trigger_nodes[1]>>]
     ELSE IF Len(webhook_nodes) > 0
       THEN [raised |-> FALSE, nodes |-> <<webhook_nodes[1]>>]
     ELSE IF Len(root_nodes) > 0 THEN [raised |-> FALSE, nodes |-> root_nodes]
     ELSE IF Len(input_nodes) > 0 THEN [raised |-> FALSE, nodes |-> input_nodes]
     ELSE [raised |-> TRUE, nodes |-> <<>>]

\* the node types find_starting_nodes tells apart, and one it does not
StartTypes == {"trigger", "webhook", "comment", "manualInput", "condition"}

InitStart ==
  /\ \E n \in 0..StartMaxNodes :
       /\ nodes \in [1..n -> {Node(i, t) : i \in 1..n, t \in StartTypes}]
       /\ \A i \in 1..n : nodes[i].id = i
       /\ connections \in
            BoundedSeq({Conn(u, v, "", "") : u \in 1..n, v \in 1..n}, StartMaxConns)
  /\ RunAtRest
  /\ pc = "call"
  /\ dependencies = <<>>
  /\ layers = <<>>
  /\ fn_args = <<>>
  /\ fn_ret = [raised |-> FALSE, nodes |-> <<>>]

\* starting_nodes = await find_starting_nodes(nodes, connections)
FindStartingNodesCall ==
  /\ pc = "call"
  /\ LET r == find_starting_nodes(nodes, connections)
     IN /\ fn_ret' = r
        /\ pc' = IF r.raised THEN "raised" ELSE "returned"
  /\ UNCHANGED <<legacyVars, graphVars, rowVars, exc, dependencies, layers, layer_idx,
                 layer_tasks, collect_idx, node_results, taskVars, cancelVars,
                 fn_args>>

NextStart == FindStartingNodesCall

SpecStart == InitStart /\ [][NextStart]_vars

(* --------- the planner on reordered listings (SpecOrder) --------------- *)
\* the lists that enumerate the set S, each element once
Listings(S) == {l \in [1..Cardinality(S) -> S] : Range(l) = S}

\* the lists that hold the elements of the list s in another order
Permuted(s) == {[i \in 1..Len(s) |-> s[p[i]]] : p \in Listings(1..Len(s))}

\* line 52, for node_id in remaining: a layer is listed in the iteration
\* order of a Python set, which is any order
LayerLists(ls) ==
  {ll \in [1..Len(ls) -> UNION {Listings(ls[i]) : i \in 1..Len(ls)}] :
      \A i \in 1..Len(ls) : ll[i] \in Listings(ls[i])}

\* what a call of analyze_workflow_dependencies and get_execution_layers on
\* a listing can produce: the ValueError, or one of the lists of layers
PlannerResults(ns, cs) ==
  LET r == get_execution_layers(ns, analyze_workflow_dependencies(ns, cs))
  IN IF r.raised THEN {[raised |-> TRUE, layers |-> <<>>]}
     ELSE {[raised |-> FALSE, layers |-> ll] : ll \in LayerLists(r.layers)}

NoPlan == [raised |-> FALSE, layers |-> <<>>]

\* fn_args is a second listing of the same nodes and connections
InitOrder ==
  /\ \E n \in 0..OrderMaxNodes :
       /\ nodes = [i \in 1..n |-> Node(i, "condition")]
       /\ connections \in
            BoundedSeq({Conn(u, v, "", "") : u \in 1..n, v \in 1..n}, OrderMaxConns)
  /\ \E ns \in Permuted(nodes), cs \in Permuted(connections) :
       fn_args = [nodes |-> ns, connections |-> cs]
  /\ RunAtRest
  /\ pc = "first"
  /\ dependencies = <<>>
  /\ layers = <<>>
  /\ fn_ret = [first |-> NoPlan, latest |-> NoPlan]

\* the planner is called on nodes and connections; fn_ret keeps the result
\* of the first call and the result of the latest call
PlanFirst ==
  /\ pc = "first"
  /\ \E r \in PlannerResults(nodes, connections) :
       fn_ret' = [first |-> r, latest |-> r]
  /\ pc' = "again"
  /\ UNCHANGED <<legacyVars, graphVars, rowVars, exc, dependencies, layers, layer_idx,
                 layer_tasks, collect_idx, node_results, taskVars, cancelVars,
                 fn_args>>

\* it is called a second time on the same arguments
PlanAgain ==
  /\ pc = "again"
  /\ \E r \in PlannerResults(nodes, connections) :
       fn_ret' = [fn_ret EXCEPT !.latest = r]
  /\ pc' = "reordered"
  /\ UNCHANGED <<legacyVars, graphVars, rowVars, exc, dependencies, layers, layer_idx,
                 layer_tasks, collect_idx, node_results, taskVars, cancelVars,
                 fn_args>>

\* it is called on the second listing
PlanReordered ==
  /\ pc = "reordered"
  /\ \E r \in PlannerResults(fn_args.nodes, fn_args.connections) :
       fn_ret' = [fn_ret EXCEPT !.latest = r]
  /\ pc' = "returned"
  /\ UNCHANGED <<legacyVars, graphVars, rowVars, exc, dependencies, layers, layer_idx,
                 layer_tasks, collect_idx, node_results, taskVars, cancelVars,
                 fn_args>>

NextOrder == PlanFirst \/ PlanAgain \/ PlanReordered

SpecOrder == InitOrder /\ [][NextOrder]_vars

(* ------------- the legacy flow (workflow_flow.py, SpecLegacy) ---------- *)
NoStartingNodes == [kind |-> "no_starting_nodes", ids |-> <<>>]
HandlerException == [kind |-> "handler_exception", ids |-> <<>>]
RecursionError == [kind |-> "recursion_error", ids |-> <<>>]

SeedNode_alltypes(node, run_inputs) ==
  IF HasKey(run_inputs, ToString(node.id))
    THEN [node EXCEPT !.config =
            DictSet(IF node.config = None THEN EmptyDict ELSE node.config,
                    "inputVarValue", run_inputs.dict[ToString(node.id)])]
    ELSE node

\* execute_workflow_flow, lines 208-212: one iteration of the loop that
\* applies the inputs to the manual input nodes
SeedNode(node, run_inputs) ==
  IF node.type = "manualInput" /\ HasKey(run_inputs, ToString(node.id))
    THEN [node EXCEPT !.config =
            DictSet(IF node.config = None THEN EmptyDict ELSE node.config,
                    "inputVarValue", run_inputs.dict[ToString(node.id)])]
    ELSE node

\* node_handlers.py handle_manual_input: {var_name: var_value}, var_name
\* "input" when the config names none, var_value "" when it has none
handle_manual_input(node) ==
  LET config_data == IF node.config = None THEN EmptyDict ELSE node.config
      var_value == IF /\ HasKey(config_data, "inputVarValue")
                      /\ Truthy(config_data.dict["inputVarValue"])
                     THEN config_data.dict["inputVarValue"]
                     ELSE Scalar("")
  IN ReturnWith(Dict([k \in {"input"} |-> var_value]))

\* node_handlers.py handle_condition, batch mode: the input is passed on with
\* a conditionResult; float() of a missing value raises
handle_condition(input_data) ==
  {[raised |-> TRUE, ret |-> None]} \cup
  {[raised |-> FALSE,
    ret |-> Dict([k \in {"success", "outputData", "conditionResult"} |->
              CASE k = "success" -> Scalar("true")
                [] k = "outputData" -> input_data
                [] OTHER -> Scalar(c)])] : c \in {"true", "false"}}

LegacyOutcomes_strict(node, input_data) ==
  IF node.type \notin NODE_HANDLERS
    THEN {[raised |-> TRUE, ret |-> None]}
  ELSE IF node.type = "manualInput"
    THEN {[raised |-> FALSE, ret |-> handle_manual_input(node)]}
  ELSE IF node.type = "condition" THEN handle_condition(input_data)
  ELSE HandlerOutcomes(node.id)

\* execute_node, lines 120-134: a type without handler passes its input on;
\* otherwise the handler is awaited
LegacyOutcomes(node, input_data) ==
  IF node.type \notin NODE_HANDLERS
    THEN {[raised |-> FALSE, ret |-> ReturnWith(input_data)]}
  ELSE IF node.type = "manualInput"
    THEN {[raised |-> FALSE, ret |-> handle_manual_input(node)]}
  ELSE IF node.type = "condition" THEN handle_condition(input_data)
  ELSE HandlerOutcomes(node.id)

\* node_results[node["id"]] = result on the local dict of the legacy flow
SetResult(results, id, result) ==
  [x \in (DOMAIN results) \cup {id} |-> IF x = id THEN result ELSE results[x]]

\* result.get("outputData", input_data)
OutputDataOr(result, input_data) ==
  IF HasKey(result, "outputData") THEN result.dict["outputData"] ELSE input_data

\* ids of a list of nodes
IdsOf(ns) == [i \in 1..Len(ns) |-> ns[i].id]

LegacyLogStatus_failed(outcome) == IF outcome.raised THEN "failed" ELSE "completed"

\* execute_node, lines 140 and 161: status of the terminal log row
LegacyLogStatus(outcome) == IF outcome.raised THEN "error" ELSE "completed"

Caught_notrecursion(e) == e # RecursionError

\* execute_workflow_flow, line 260: except Exception catches whatever the
\* walk raised, RecursionError included
Caught(e) == TRUE

\* execute_from_node(node, input_data), lines 219-229, called with the
\* calls in stack active: execute_node (its two log rows, the handler, the
\* re-raise), the result slot, the output for the next nodes and
\* get_next_nodes; a call beyond the interpreter's recursion limit raises
execute_from_node(node_id, input_data, stack) ==
  LET node == NodeById(nodes, node_id)
  IN IF Len(stack) >= RecursionLimit
       THEN /\ exc' = RecursionError
            /\ pc' = "except"
            /\ call_stack' = <<>>
            /\ UNCHANGED <<execution_logs, node_results>>
       ELSE \E outcome \in LegacyOutcomes(node, input_data) :
              IF outcome.raised
                THEN /\ execution_logs' =
                          [execution_logs EXCEPT ![node_id] =
                              LogAppend(LogAppend(@, "running"),
                                        LegacyLogStatus(outcome))]
                     /\ exc' = HandlerException
                     /\ pc' = "except"
                     /\ call_stack' = <<>>
                     /\ UNCHANGED node_results
                ELSE /\ execution_logs' =
                          [execution_logs EXCEPT ![node_id] =
                              LogAppend(LogAppend(@, "running"),
                                        LegacyLogStatus(outcome))]
                     /\ node_results' = SetResult(node_results, node_id, outcome.ret)
                     /\ call_stack' =
                          Append(stack,
                                 [node_id |-> node_id,
                                  input_data |-> input_data,
                                  output_data |-> OutputDataOr(outcome.ret, input_data),
                                  next_nodes |->
                                    IdsOf(get_next_nodes(node_id, nodes, connections,
                                                         outcome.ret)),
                                  idx |-> 1])
                     /\ UNCHANGED <<exc, pc>>

\* execute_workflow_flow, line 200: update_execution(status="running")
LegacyStart ==
  /\ pc = "pending"
  /\ status' = "running"
  /\ startedAt' = TRUE
  /\ pc' = "parse"
  /\ UNCHANGED <<legacyVars, graphVars, error, completedAt, nodeResults, exc,
                 dependencies, layers, layer_idx, layer_tasks, collect_idx,
                 node_results, taskVars, cancelVars, fnVars>>

\* lines 203-216: parse_workflow_data, the seeding loop, find_starting_nodes
LegacyPrepare ==
  /\ pc = "parse"
  /\ nodes' = [i \in 1..Len(nodes) |-> SeedNode(nodes[i], inputs)]
  /\ LET r == find_starting_nodes(nodes', connections)
     IN IF r.raised
          THEN /\ exc' = NoStartingNodes
               /\ pc' = "except"
               /\ UNCHANGED <<starting_nodes, start_idx>>
          ELSE /\ starting_nodes' = IdsOf(r.nodes)
               /\ start_idx' = 1
               /\ pc' = "walk"
               /\ exc' = exc
  /\ UNCHANGED <<connections, inputs, rowVars, dependencies, layers, layer_idx,
                 layer_tasks, collect_idx, node_results, taskVars, cancelVars,
                 fnVars, call_stack>>

\* inputs.get("_webhookData") if start_node["type"] == "webhook" else None
WebhookData(node, run_inputs) ==
  IF node.type = "webhook" /\ HasKey(run_inputs, "_webhookData")
    THEN run_inputs.dict["_webhookData"]
    ELSE None

\* lines 240-243: one iteration of the loop over starting_nodes
LegacyCallStart ==
  /\ pc = "walk"
  /\ call_stack = <<>>
  /\ start_idx <= Len(starting_nodes)
  /\ start_idx' = start_idx + 1
  /\ execute_from_node(starting_nodes[start_idx],
                       WebhookData(NodeById(nodes, starting_nodes[start_idx]), inputs),
                       <<>>)
  /\ UNCHANGED <<graphVars, rowVars, dependencies, layers, layer_idx,
                 layer_tasks, collect_idx, task, dispatch_count, cancelVars,
                 fnVars, starting_nodes>>

\* lines 235-236: one iteration of the loop over next_nodes
LegacyCallNext ==
  /\ pc = "walk"
  /\ call_stack # <<>>
  /\ LET top == call_stack[Len(call_stack)]
     IN /\ top.idx <= Len(top.next_nodes)
        /\ execute_from_node(top.next_nodes[top.idx], top.output_data,
                             [call_stack EXCEPT ![Len(call_stack)].idx = @ + 1])
  /\ UNCHANGED <<graphVars, rowVars, dependencies, layers, layer_idx,
                 layer_tasks, collect_idx, task, dispatch_count, cancelVars,
                 fnVars, starting_nodes, start_idx>>

\* execute_from_node returns: its loop over next_nodes is exhausted
LegacyReturn ==
  /\ pc = "walk"
  /\ call_stack # <<>>
  /\ call_stack[Len(call_stack)].idx > Len(call_stack[Len(call_stack)].next_nodes)
  /\ call_stack' = SubSeq(call_stack, 1, Len(call_stack) - 1)
  /\ UNCHANGED <<graphVars, rowVars, flowVars, taskVars, cancelVars, fnVars,
                 starting_nodes, start_idx>>

\* lines 245-251: update_execution(status="completed", final_output,
\* node_results); database.py writes nodeResults when the dict is not empty
LegacyComplete ==
  /\ pc = "walk"
  /\ call_stack = <<>>
  /\ start_idx > Len(starting_nodes)
  /\ status' = "completed"
  /\ completedAt' = TRUE
  /\ nodeResults' = IF DOMAIN node_results # {} THEN node_results ELSE nodeResults
  /\ pc' = "done"
  /\ UNCHANGED <<legacyVars, graphVars, error, startedAt, exc, dependencies,
                 layers, layer_idx, layer_tasks, collect_idx, node_results,
                 taskVars, cancelVars, fnVars>>

\* lines 260-268: update_execution(status="failed", error=str(e))
LegacyExcept ==
  /\ pc = "except"
  /\ Caught(exc)
  /\ status' = "failed"
  /\ completedAt' = TRUE
  /\ error' = exc
  /\ pc' = "done"
  /\ UNCHANGED <<legacyVars, graphVars, startedAt, nodeResults, exc,
                 dependencies, layers, layer_idx, layer_tasks, collect_idx,
                 node_results, taskVars, cancelVars, fnVars>>

LegacyTypes == {"manualInput", "condition", "customWidget"}

\* the config a stored node may carry, and the run inputs: a value for node 1
\* or none
LegacyConfigs == {None, Dict([k \in {"inputVarValue"} |-> Scalar("old")])}
LegacyInputs == {EmptyDict, Dict([k \in {"1"} |-> Scalar("new")])}

InitLegacy ==
  /\ \E n \in 0..LegacyMaxNodes :
       /\ nodes \in [1..n -> {NodeWithConfig(i, t, c) :
                               i \in 1..n, t \in LegacyTypes, c \in LegacyConfigs}]
       /\ \A i \in 1..n : nodes[i].id = i
       /\ connections \in
            BoundedSeq({Conn(u, v, "", "") : u \in 1..n, v \in 1..n},
                       LegacyMaxConns)
  /\ inputs \in LegacyInputs
  /\ InitRunState

NextLegacy ==
  \/ LegacyStart
  \/ LegacyPrepare
  \/ LegacyCallStart
  \/ LegacyCallNext
  \/ LegacyReturn
  \/ LegacyComplete
  \/ LegacyExcept

SpecLegacy == InitLegacy /\ [][NextLegacy]_vars

\* The legacy flow is one coroutine: every step of it is taken in finite
\* time when handlers return or raise in finite time and the store answers.
SpecLegacyLive == InitLegacy /\ [][NextLegacy]_vars /\ WF_vars(NextLegacy)

(* The legacy flow over acyclic graphs of four nodes in which a node can  *)
(* be reached over two paths: the diamond 1->2, 1->3, 2->4, 3->4 and the  *)
(* triangle 1->2, 1->3, 2->3 next to a node without connection.           *)
MultiPathShapes ==
  {<<Conn(1, 2, "", ""), Conn(1, 3, "", ""), Conn(2, 4, "", ""), Conn(3, 4, "", "")>>,
   <<Conn(1, 2, "", ""), Conn(1, 3, "", ""), Conn(2, 3, "", "")>>}

InitMultiPath ==
  /\ nodes \in [1..4 -> {NodeWithConfig(i, t, None) : i \in 1..4, t \in LegacyTypes}]
  /\ \A i \in 1..4 : nodes[i].id = i
  /\ connections \in MultiPathShapes
  /\ inputs \in LegacyInputs
  /\ InitRunState

SpecMultiPath == InitMultiPath /\ [][NextLegacy]_vars

(* ============================== claims ================================= *)
Dispatched(id) == task[id].state # "none"
Returned(id) == task[id].state = "returned"
GraphOk == ValidRefs(nodes, connections) /\ Acyclic(nodes, connections)

\* C1 (SpecPlan): for an acyclic graph whose connections reference existing
\* nodes only, the planner returns layers; every node id is in exactly one
\* layer, and for every connection u->v the layer of u comes strictly before
\* the layer of v.
C1_LayeringCorrect ==
  (pc \in {"returned", "raised"} /\ GraphOk) =>
     /\ pc = "returned"
     /\ \A id \in NodeIds(nodes) :
          Cardinality({i \in 1..Len(fn_ret.layers) : id \in fn_ret.layers[i]}) = 1
     /\ \A i \in 1..Len(fn_ret.layers) : fn_ret.layers[i] \subseteq NodeIds(nodes)
     /\ \A i \in 1..Len(connections) :
          LayerIndex(fn_ret.layers, connections[i].fromNodeId)
            < LayerIndex(fn_ret.layers, connections[i].toNodeId)

\* a node with two parents in different layers has been planned
C1_Witness ==
  /\ pc = "returned"
  /\ GraphOk
  /\ Len(fn_ret.layers) = 3
  /\ \E id \in NodeIds(nodes) :
       /\ Len(dependencies[id]) = 2
       /\ LayerIndex(fn_ret.layers, dependencies[id][1])
            # LayerIndex(fn_ret.layers, dependencies[id][2])

\* C2 (Spec), as claimed: once a cancel request has been stored while layer
\* N was executing, no node of a later layer is ever dispatched.
C2_CancelStopsLaterLayers ==
  cancel_layer > 0 =>
    \A id \in NodeIds(nodes) :
       LayerIndex(layers, id) > cancel_layer => ~Dispatched(id)

\* C3 (Spec), as claimed: a status that is completed, failed or cancelled is
\* never changed again.
C3_TerminalStatusImmutable ==
  [][(status \in TerminalStatus) => (status' = status)]_vars

\* C4 (Spec): whenever a node of some layer has been dispatched, every node
\* of every earlier layer has returned and its result is stored in
\* node_results under its id.
C4_LayerBarrier ==
  \A id \in NodeIds(nodes) :
     Dispatched(id) =>
       \A m \in NodeIds(nodes) :
          (LayerIndex(layers, m) < LayerIndex(layers, id)) =>
             /\ Returned(m)
             /\ InResults(node_results, m)
             /\ ResultOf(node_results, m) = task[m].result

\* a node of the second layer is dispatched after a first layer of two nodes
C4_Witness ==
  /\ Len(layers) >= 2
  /\ Cardinality(layers[1]) = 2
  /\ \E id \in layers[2] : Dispatched(id)

\* C5 (Spec): on a graph with a cycle nothing is ever dispatched or logged,
\* and the flow ends by storing status failed with the planner's error.
C5_CycleFailsRun ==
  [][~Acyclic(nodes, connections) =>
       /\ \A id \in NodeIds(nodes) :
            dispatch_count'[id] = 0 /\ execution_logs'[id] = <<>>
       /\ (pc # "done" /\ pc' = "done") =>
            (status' = "failed" /\ error' = CircularDependency)]_vars

\* the flow has ended on the graph 1 -> 2, 2 -> 1
C5_Witness ==
  /\ pc = "done"
  /\ {<<1, 2>>, <<2, 1>>} \subseteq Edges(connections)
  /\ status = "failed"
  /\ error = CircularDependency

\* C6 (Spec): when the flow reaches its finalisation on an acyclic graph,
\* every node has been dispatched and has returned a result, whichever
\* nodes failed.
C6_FailureDoesNotStopOthers ==
  (pc \in {"finalize", "done"} /\ Acyclic(nodes, connections)) =>
     \A id \in NodeIds(nodes) :
        dispatch_count[id] >= 1 /\ Returned(id) /\ InResults(node_results, id)

\* a node failed, and both a sibling and a child of it have run
C6_Witness ==
  /\ pc = "done"
  /\ \E f \in NodeIds(nodes), c \in NodeIds(nodes), b \in NodeIds(nodes) :
       /\ f # b
       /\ <<f, c>> \in Edges(connections)
       /\ LayerIndex(layers, f) = LayerIndex(layers, b)
       /\ Returned(f) /\ ~task[f].result.success
       /\ Returned(c) /\ task[c].result.success
       /\ Returned(b) /\ task[b].result.success

FailedIds(results) ==
  {results[i].nodeId : i \in {j \in 1..Len(results) : ~results[j].success}}

\* C7 (Spec): the finalisation stores failed exactly when some stored result
\* has success = false, and then the error names exactly those node ids,
\* each once; otherwise it stores completed and no error.
C7_FinalStatus ==
  [][(pc = "finalize" /\ pc' = "done") =>
       IF FailedIds(node_results) # {}
         THEN /\ status' = "failed"
              /\ error'.kind = "nodes_failed"
              /\ Range(error'.ids) = FailedIds(node_results)
              /\ Len(error'.ids) = Cardinality(FailedIds(node_results))
         ELSE /\ status' = "completed"
              /\ error' = NoError]_vars

\* a run has ended with two failed nodes and one that succeeded
C7_Witness ==
  /\ pc = "done"
  /\ status = "failed"
  /\ error.kind = "nodes_failed"
  /\ Len(error.ids) = 2
  /\ \E id \in NodeIds(nodes) : Returned(id) /\ task[id].result.success

StoredCount(results, id) ==
  Cardinality({i \in 1..Len(results) : results[i].nodeId = id})

\* C8 (Spec): no node is dispatched twice and no node has two stored
\* results; at the finalisation of an acyclic graph every node has been
\* dispatched once and has one stored result; a stored result never changes.
C8_ExactlyOnce ==
  /\ [](\A id \in NodeIds(nodes) :
          /\ dispatch_count[id] <= 1
          /\ StoredCount(node_results, id) <= 1
          /\ (pc \in {"finalize", "done"} /\ Acyclic(nodes, connections)) =>
               (dispatch_count[id] = 1 /\ StoredCount(node_results, id) = 1))
  /\ [][\A id \in NodeIds(nodes) :
          InResults(node_results, id) =>
             /\ InResults(node_results', id)
             /\ ResultOf(node_results', id) = ResultOf(node_results, id)]_vars

\* a run over three nodes in two layers has ended
C8_Witness ==
  /\ pc = "done"
  /\ Len(nodes) = 3
  /\ Len(layers) = 2
  /\ \A id \in NodeIds(nodes) : dispatch_count[id] = 1
  /\ Len(node_results) = 3

\* a connection the branch filter does not select: its parent's stored
\* result carries a conditionResult that the connection's port contradicts
Unselected(conn) ==
  /\ InResults(node_results, conn.fromNodeId)
  /\ ResultOf(node_results, conn.fromNodeId).success
  /\ HasCondition(ResultOf(node_results, conn.fromNodeId))
  /\ ~PortSelected(ConditionOf(ResultOf(node_results, conn.fromNodeId)),
                   conn.fromPort)

\* the payload of parent p occurs in the input v
Mentions(v, p) ==
  \/ v = OutputOf(p)
  \/ \E k \in DOMAIN v.dict : v.dict[k] \in {OutputOf(p), Scalar(ToString(p))}

\* C9 (SpecData), as claimed: a parent that reaches a dispatched node only
\* over connections the branch filter does not select contributes nothing
\* to the node's input.
C9_UnselectedContributesNothing ==
  \A id \in NodeIds(nodes) :
     Dispatched(id) =>
       \A p \in NodeIds(nodes) :
          (/\ \E i \in 1..Len(connections) :
                connections[i].fromNodeId = p /\ connections[i].toNodeId = id
           /\ \A i \in 1..Len(connections) :
                (connections[i].fromNodeId = p /\ connections[i].toNodeId = id)
                   => Unselected(connections[i]))
          => ~Mentions(task[id].input, p)

\* C10 (SpecFilter): get_next_nodes keeps every connection leaving the node
\* when the result has no conditionResult; otherwise exactly the "true"
\* ports on a true result, the "false" ports on a false result, and every
\* port that is neither; never a "true" and a "false" port together.
C10_BranchFilter ==
  pc = "returned" =>
    LET leaving == {c \in Range(connections) : c.fromNodeId = fn_args.node_id}
        has == HasKey(fn_args.result, "conditionResult")
        cond == has /\ fn_args.result.dict["conditionResult"] = Scalar("true")
        kept == Range(fn_ret.outgoing)
    IN /\ kept \subseteq leaving
       /\ ~has => (kept = leaving /\ Len(fn_ret.outgoing) =
                     Cardinality({i \in 1..Len(connections) :
                                    connections[i].fromNodeId = fn_args.node_id}))
       /\ has =>
            /\ \A c \in leaving :
                 c \in kept <=>
                   \/ cond /\ c.fromPort = "true"
                   \/ ~cond /\ c.fromPort = "false"
                   \/ c.fromPort \notin {"true", "false"}
            /\ ~\E c \in kept, d \in kept : c.fromPort = "true" /\ d.fromPort = "false"
       /\ NodeIds(fn_ret.next_nodes) = {c.toNodeId : c \in kept}

\* a true result on a node with a "true" and a "false" connection: only the
\* "true" one is kept
C10_Witness ==
  /\ pc = "returned"
  /\ HasKey(fn_args.result, "conditionResult")
  /\ fn_args.result.dict["conditionResult"] = Scalar("true")
  /\ Len(connections) = 2
  /\ {connections[i].fromPort : i \in {j \in 1..Len(connections) :
         connections[j].fromNodeId = fn_args.node_id}} = {"true", "false"}
  /\ Len(fn_ret.outgoing) = 1
  /\ fn_ret.outgoing[1].fromPort = "true"

(* ---- claims about merge_inputs (SpecMerge) ---- *)
\* the positions of the connections that lead to the node merge_inputs was
\* called for
IncomingIdx == {i \in 1..Len(connections) : connections[i].toNodeId = fn_args.node_id}

\* the parent of connection i has a result in parent_results that succeeded
ParentSucceeded(i) ==
  \E j \in 1..Len(fn_args.parent_results) :
     /\ fn_args.parent_results[j].nodeId = connections[i].fromNodeId
     /\ fn_args.parent_results[j].success

\* what the parent of connection i handed on: the outputData of its handler
\* return when there is one, the handler return itself otherwise
ParentPayload(i) ==
  LET r == CHOOSE r \in Range(fn_args.parent_results) :
              r.nodeId = connections[i].fromNodeId
  IN IF r.output.kind = "dict" /\ "outputData" \in DOMAIN r.output.dict
       THEN r.output.dict["outputData"]
       ELSE r.output

DeclaresOutputData(i) ==
  \E r \in Range(fn_args.parent_results) :
     /\ r.nodeId = connections[i].fromNodeId
     /\ r.output.kind = "dict"
     /\ "outputData" \in DOMAIN r.output.dict

\* C11 (SpecMerge): with exactly one incoming connection whose parent
\* succeeded and declared an outputData, merge_inputs returns that outputData
\* unchanged, be it a mapping, a sequence or a scalar.
C11_SinglePassThrough ==
  (pc = "returned" /\ Cardinality(IncomingIdx) = 1) =>
     \A i \in IncomingIdx :
        (ParentSucceeded(i) /\ DeclaresOutputData(i)) =>
           fn_ret = (CHOOSE r \in Range(fn_args.parent_results) :
                        r.nodeId = connections[i].fromNodeId).output.dict["outputData"]

\* a sequence has been passed through the single incoming connection, which
\* is declared after a connection that leads elsewhere
C11_Witness ==
  /\ pc = "returned"
  /\ Cardinality(IncomingIdx) = 1
  /\ Len(connections) = 2
  /\ 2 \in IncomingIdx
  /\ ParentSucceeded(2)
  /\ fn_ret.kind = "list"

\* C12 (SpecMerge): with exactly two incoming connections from parents that
\* succeeded, one labelled "A" and one labelled "B", merge_inputs returns
\* the mapping with exactly the keys inputA and inputB, holding the output
\* of the A parent and of the B parent, in whichever order the two
\* connections are declared.
C12_JoinByLabel ==
  (pc = "returned" /\ Cardinality(IncomingIdx) = 2) =>
     \A a \in IncomingIdx, b \in IncomingIdx :
        (/\ connections[a].outputType = "A"
         /\ connections[b].outputType = "B"
         /\ ParentSucceeded(a)
         /\ ParentSucceeded(b)) =>
           /\ fn_ret.kind = "dict"
           /\ DOMAIN fn_ret.dict = {"inputA", "inputB"}
           /\ fn_ret.dict["inputA"] = ParentPayload(a)
           /\ fn_ret.dict["inputB"] = ParentPayload(b)

\* the "B" connection is declared before the "A" connection, the two come
\* from different parents, and both keys are in the result
C12_Witness ==
  /\ pc = "returned"
  /\ Len(connections) = 2
  /\ connections[1].outputType = "B" /\ connections[1].toNodeId = fn_args.node_id
  /\ connections[2].outputType = "A" /\ connections[2].toNodeId = fn_args.node_id
  /\ connections[1].fromNodeId # connections[2].fromNodeId
  /\ ParentSucceeded(1) /\ ParentSucceeded(2)
  /\ DOMAIN fn_ret.dict = {"inputA", "inputB"}
  /\ fn_ret.dict["inputA"] # fn_ret.dict["inputB"]

\* the keys connection i contributes to the merged mapping
ContributedKeys(i) ==
  IF ~ParentSucceeded(i) THEN {}
  ELSE IF connections[i].outputType = "A" THEN {"inputA"}
  ELSE IF connections[i].outputType = "B" THEN {"inputB"}
  ELSE IF ParentPayload(i).kind = "dict" THEN DOMAIN ParentPayload(i).dict
  ELSE {}

\* the value connection i contributes under key k
ContributedValue(i, k) ==
  IF connections[i].outputType \in {"A", "B"}
    THEN ParentPayload(i)
    ELSE ParentPayload(i).dict[k]

\* C13 (SpecMerge): with several incoming connections the result is a
\* mapping whose keys are those contributed by the connections of parents
\* that succeeded (a parent that failed or has no result contributes none,
\* an unlabelled output that is not a mapping contributes none), and every
\* key holds the value of the last-declared connection that contributes it.
C13_MultiMerge ==
  (pc = "returned" /\ Cardinality(IncomingIdx) >= 2) =>
     /\ fn_ret.kind = "dict"
     /\ DOMAIN fn_ret.dict = UNION {ContributedKeys(i) : i \in IncomingIdx}
     /\ \A k \in DOMAIN fn_ret.dict :
          LET last == CHOOSE i \in IncomingIdx :
                        /\ k \in ContributedKeys(i)
                        /\ \A j \in IncomingIdx : k \in ContributedKeys(j) => j <= i
          IN fn_ret.dict[k] = ContributedValue(last, k)

\* three unlabelled connections: a mapping, a parent that failed, and a
\* mapping that collides with the first on "k"; the later value is kept
C13_Witness ==
  /\ pc = "returned"
  /\ IncomingIdx = {1, 2, 3}
  /\ \A i \in IncomingIdx : connections[i].outputType = ""
  /\ connections[2].fromNodeId \in
        {r.nodeId : r \in {x \in Range(fn_args.parent_results) : ~x.success}}
  /\ ParentSucceeded(1) /\ ParentSucceeded(3)
  /\ connections[1].fromNodeId # connections[3].fromNodeId
  /\ "k" \in ContributedKeys(1) \cap ContributedKeys(3)
  /\ fn_ret.dict["k"] = ParentPayload(3).dict["k"]
  /\ fn_ret.dict["k"] # ParentPayload(1).dict["k"]

(* ---- claims about the run (Spec, SpecRefs, SpecLive) ---- *)
Unregistered == {id \in NodeIds(nodes) : NodeById(nodes, id).type \notin NODE_HANDLERS}

\* C14 (Spec): a node whose type has no handler returns success = false and
\* no handler is awaited for it; on an acyclic graph that holds such a node
\* the flow never enters its except clause, every node is dispatched, and
\* the finalisation stores failed with an error that names the node.
C14_UnknownTypeFailsNode ==
  /\ [](\A id \in Unregistered :
          Returned(id) => (~task[id].result.success /\ ~task[id].invoked))
  /\ []((Unregistered # {} /\ Acyclic(nodes, connections)) =>
          /\ pc # "except"
          /\ exc = NoError
          /\ pc \in {"finalize", "done"} =>
               \A id \in NodeIds(nodes) : dispatch_count[id] = 1 /\ Returned(id))
  /\ [][(Unregistered # {} /\ pc = "finalize" /\ pc' = "done") =>
          /\ status' = "failed"
          /\ error'.kind = "nodes_failed"
          /\ Unregistered \subseteq Range(error'.ids)]_vars

\* a run has ended in which the node without handler is the only one that
\* failed; its child and its sibling have run and succeeded
C14_Witness ==
  /\ pc = "done"
  /\ status = "failed"
  /\ \E u \in Unregistered, c \in NodeIds(nodes), b \in NodeIds(nodes) :
       /\ error = NodesFailed(<<u>>)
       /\ <<u, c>> \in Edges(connections)
       /\ b \notin {u, c}
       /\ Returned(c) /\ task[c].result.success /\ task[c].invoked
       /\ Returned(b) /\ task[b].result.success

\* C15 (Spec), as claimed: once the flow has ended, the stored result map of
\* the run holds a result for every node that was dispatched.
C15_ResultsPersisted ==
  pc = "done" =>
     \A id \in NodeIds(nodes) :
        dispatch_count[id] > 0 => InResults(nodeResults, id)

\* C16 (SpecRefs), as claimed: on a graph with a connection that names a
\* node id no node has, no node is ever dispatched and the flow ends by
\* storing status failed.
C16_DanglingRejected ==
  [][~ValidRefs(nodes, connections) =>
       /\ \A id \in NodeIds(nodes) : dispatch_count'[id] = 0
       /\ (pc # "done" /\ pc' = "done") => status' = "failed"]_vars

\* the graph has no entry point: no trigger, no webhook, no node without
\* incoming connection other than comments, no manualInput
NoEntryPoint(ns, cs) ==
  /\ \A i \in 1..Len(ns) : ns[i].type \notin {"trigger", "webhook", "manualInput"}
  /\ \A i \in 1..Len(ns) :
       \/ ns[i].type = "comment"
       \/ \E j \in 1..Len(cs) : cs[j].toNodeId = ns[i].id

\* C17 (Spec), as claimed: on a graph without entry point no node is ever
\* dispatched and the flow ends by storing status failed.
C17_NoEntryPointFails ==
  [][NoEntryPoint(nodes, connections) =>
       /\ \A id \in NodeIds(nodes) : dispatch_count'[id] = 0
       /\ (pc # "done" /\ pc' = "done") => status' = "failed"]_vars

(* ---- claims about find_starting_nodes (SpecStart) ---- *)
NodesOfType(t) == {n \in Range(nodes) : n.type = t}
RootsNotComment ==
  {n \in Range(nodes) :
      /\ n.type # "comment"
      /\ \A i \in 1..Len(connections) : connections[i].toNodeId # n.id}

\* C18 (SpecStart): find_starting_nodes returns one trigger node and nothing
\* else when there is a trigger node; otherwise one webhook node and nothing
\* else when there is one; otherwise all nodes without incoming connection
\* that are not comments, when there are any; otherwise all manualInput
\* nodes, when there are any; otherwise it raises.  Every node is returned
\* at most once.
C18_StartPriority ==
  pc \in {"returned", "raised"} =>
     LET got == Range(fn_ret.nodes)
     IN /\ Len(fn_ret.nodes) = Cardinality(got)
        /\ IF NodesOfType("trigger") # {}
             THEN ~fn_ret.raised /\ Len(fn_ret.nodes) = 1 /\ got \subseteq NodesOfType("trigger")
           ELSE IF NodesOfType("webhook") # {}
             THEN ~fn_ret.raised /\ Len(fn_ret.nodes) = 1 /\ got \subseteq NodesOfType("webhook")
           ELSE IF RootsNotComment # {}
             THEN ~fn_ret.raised /\ got = RootsNotComment
           ELSE IF NodesOfType("manualInput") # {}
             THEN ~fn_ret.raised /\ got = NodesOfType("manualInput")
           ELSE fn_ret.raised /\ got = {}

\* a webhook node that has an incoming connection from a root node is the
\* only node returned: the root rule is not used
C18_Witness ==
  /\ pc = "returned"
  /\ NodesOfType("trigger") = {}
  /\ RootsNotComment # {}
  /\ Len(fn_ret.nodes) = 1
  /\ fn_ret.nodes[1].type = "webhook"
  /\ fn_ret.nodes[1] \notin RootsNotComment

(* ---- claims about termination (SpecLive) ---- *)
\* C19 (SpecLive): every run eventually has a stored status that is
\* completed, failed or cancelled and stays so, whether or not cancel
\* requests arrive.
C19_ReachesTerminalStatus == <>[](status \in TerminalStatus)

\* a cancel request was stored during the run and the flow has ended
C19_Witness ==
  /\ pc = "done"
  /\ cancel_ret = "ok"
  /\ cancel_layer > 0
  /\ status \in TerminalStatus
  /\ \E id \in NodeIds(nodes) : Returned(id)

(* ---- claims about the planner's determinism (SpecOrder) ---- *)
\* two results of the planner agree: both raise, or both return the same
\* number of layers with the same ids in each layer
SamePartition(a, b) ==
  /\ a.raised = b.raised
  /\ Len(a.layers) = Len(b.layers)
  /\ \A i \in 1..Len(a.layers) : Range(a.layers[i]) = Range(b.layers[i])

\* C20 (SpecOrder): two calls of the planner on the same nodes and
\* connections, and a call on the same nodes and connections listed in
\* another order, yield the same number of layers and the same set of ids in
\* each layer.
C20_PlanningDeterministic ==
  pc \in {"reordered", "returned"} => SamePartition(fn_ret.first, fn_ret.latest)

\* a node with two parents: the second listing has the nodes and the
\* connections in another order, and two calls listed a layer differently
C20_Witness ==
  /\ pc = "returned"
  /\ ~fn_ret.first.raised
  /\ Len(connections) = 2
  /\ connections[1].toNodeId = connections[2].toNodeId
  /\ connections[1].fromNodeId # connections[2].fromNodeId
  /\ Len(fn_ret.first.layers) = 2
  /\ fn_args.connections # connections
  /\ fn_args.nodes # nodes
  /\ \E i \in 1..Len(fn_ret.first.layers) :
       fn_ret.first.layers[i] # fn_ret.latest.layers[i]

(* ---- claims about cancel requests and the log (Spec) ---- *)
\* C21 (Spec), as claimed: a step stores cancelled only over a status that is
\* pending or running, and a cancel request that ends while the stored
\* status is completed, failed or cancelled answers success = false and
\* leaves the row as it is.
C21_CancelOnlyLiveRuns ==
  [][/\ (status' = "cancelled" /\ status # "cancelled") =>
          status \in {"pending", "running"}
     /\ (status \in TerminalStatus /\ cancel_pc = "update" /\ cancel_pc' = "idle") =>
          /\ cancel_ret' = "refused"
          /\ <<status, error, startedAt, completedAt, nodeResults>>' =
               <<status, error, startedAt, completedAt, nodeResults>>]_vars

\* C23 (Spec): the log of a node is empty until the node's task run starts,
\* then holds one running entry, and, once the task run has returned, one
\* running entry followed by one terminal entry; a step only appends to a
\* node's log.
C23_LogEntriesOnce ==
  /\ [](\A id \in NodeIds(nodes) :
          /\ task[id].state \in {"none", "submitted"} => execution_logs[id] = <<>>
          /\ task[id].state = "running" => execution_logs[id] = <<"running">>
          /\ task[id].state = "returned" =>
               /\ Len(execution_logs[id]) = 2
               /\ execution_logs[id][1] = "running"
               /\ execution_logs[id][2] # "running")
  /\ [][\A id \in NodeIds(nodes) :
          /\ Len(execution_logs'[id]) >= Len(execution_logs[id])
          /\ \A i \in 1..Len(execution_logs[id]) :
               execution_logs'[id][i] = execution_logs[id][i]]_vars

\* a run of three nodes has ended, one of them failed: six log entries
C23_Witness ==
  /\ pc = "done"
  /\ Len(nodes) = 3
  /\ \A id \in NodeIds(nodes) : Len(execution_logs[id]) = 2
  /\ \E id \in NodeIds(nodes) : ~task[id].result.success
  /\ \E id \in NodeIds(nodes) : task[id].result.success

\* C24 (Spec), as claimed: every log entry has status running, completed or
\* error, and once the flow has ended the failed-node count of the status
\* surface equals the number of nodes whose result has success = false.
C24_LogStatusVocabulary ==
  /\ \A id \in NodeIds(nodes) :
        \A i \in 1..Len(execution_logs[id]) :
           execution_logs[id][i] \in {"running", "completed", "error"}
  /\ pc = "done" =>
        ProgressOf(execution_logs).failedNodes = Cardinality(FailedIds(node_results))

(* ---- claims about the input of a node (SpecData) ---- *)
HasIncoming(id) == \E i \in 1..Len(connections) : connections[i].toNodeId = id

\* C25 (SpecData): a dispatched node without incoming connection is in the
\* first layer and its input is the run's inputs; the input of a dispatched
\* node of a later layer is never the run's inputs (every payload names its
\* producer, so a value equal to the run's inputs comes from the run).
C25_TopLevelInputOnlyInFirstLayer ==
  \A id \in NodeIds(nodes) :
     Dispatched(id) =>
       /\ ~HasIncoming(id) => (LayerIndex(layers, id) = 1 /\ task[id].input = inputs)
       /\ LayerIndex(layers, id) > 1 => task[id].input # inputs

\* a node of the second layer whose only parent failed has been dispatched
\* next to a node without incoming connection
C25_Witness ==
  \E id \in NodeIds(nodes), p \in NodeIds(nodes), r \in NodeIds(nodes) :
     /\ Dispatched(id) /\ LayerIndex(layers, id) = 2
     /\ <<p, id>> \in Edges(connections)
     /\ Returned(p) /\ ~task[p].result.success
     /\ task[id].input = EmptyDict
     /\ r # p /\ ~HasIncoming(r) /\ Dispatched(r) /\ task[r].input = inputs

\* the results of the nodes of the layers before the layer of id, in the
\* order of the node ids
RECURSIVE ResultsUpTo(_, _)
ResultsUpTo(k, id) ==
  IF k = 0 THEN <<>>
  ELSE IF /\ k \in NodeIds(nodes)
          /\ LayerIndex(layers, k) < LayerIndex(layers, id)
          /\ Returned(k)
         THEN Append(ResultsUpTo(k - 1, id), task[k].result)
         ELSE ResultsUpTo(k - 1, id)

\* C26 (SpecData): every parent of a dispatched node is in an earlier layer
\* and had returned when the node was dispatched, and the node's input is
\* the value computed from the run inputs, the connections and the results
\* of the nodes of earlier layers alone, whatever the node's layer-siblings
\* are doing or have returned.
C26_InputIndependentOfSiblings ==
  \A id \in NodeIds(nodes) :
     Dispatched(id) =>
       /\ \A i \in 1..Len(connections) :
            connections[i].toNodeId = id =>
               /\ LayerIndex(layers, connections[i].fromNodeId) < LayerIndex(layers, id)
               /\ Returned(connections[i].fromNodeId)
       /\ task[id].input =
            ResolveInput(id, analyze_workflow_dependencies(nodes, connections),
                         ResultsUpTo(Len(nodes), id), connections, inputs,
                         LayerIndex(layers, id))

\* two siblings of the second layer: one has returned a failure, the other
\* has returned a result, and both were dispatched with a parent's output
C26_Witness ==
  \E a \in NodeIds(nodes), b \in NodeIds(nodes) :
     /\ a # b
     /\ LayerIndex(layers, a) = 2 /\ LayerIndex(layers, b) = 2
     /\ Returned(a) /\ ~task[a].result.success
     /\ Returned(b) /\ task[b].result.success
     /\ task[a].input = task[b].input
     /\ task[a].input \notin {EmptyDict, inputs}

(* ---- claims about the planner (SpecPlan) ---- *)
\* the largest element of a non-empty set of numbers
MaxOf(S) == CHOOSE x \in S : \A y \in S : y <= x

\* C29 (SpecPlan): when the planner returns, the first layer is the set of
\* nodes without incoming connection and every other node is in the layer
\* after the last layer of its parents.
C29_LongestPathLayering ==
  (pc = "returned" /\ GraphOk) =>
     \A id \in NodeIds(nodes) :
        LET parents == {connections[i].fromNodeId :
                          i \in {j \in 1..Len(connections) : connections[j].toNodeId = id}}
        IN LayerIndex(fn_ret.layers, id) =
             IF parents = {} THEN 1
             ELSE 1 + MaxOf({LayerIndex(fn_ret.layers, p) : p \in parents})

\* two nodes without connection between them next to a chain: the first
\* layer holds three nodes
C29_Witness ==
  /\ pc = "returned"
  /\ GraphOk
  /\ Len(nodes) = 4
  /\ Len(fn_ret.layers) = 2
  /\ Cardinality(fn_ret.layers[1]) = 3
  /\ Len(connections) = 1

(* ---- claims about retries and handler results (SpecDispatch) ---- *)
\* C22 (SpecDispatch): a handler is invoked at most budget + 1 times for a
\* node; a task run whose handler was invoked returns a failure only when
\* its last invocation raised and budget + 1 invocations were made; and a
\* task run whose last invocation returned, after whatever number of raising
\* invocations, returns success = true.
C22_RetryBudget ==
  \A id \in NodeIds(nodes) :
     LET budget == HandlerRetries(NodeById(nodes, id).type)
     IN /\ task[id].invocations <= budget + 1
        /\ (Returned(id) /\ task[id].invoked /\ ~task[id].result.success) =>
              (task[id].last = "raised" /\ task[id].invocations = budget + 1)
        /\ (Returned(id) /\ task[id].last = "returned") => task[id].result.success

\* an http node whose handler raised three times has failed, next to a
\* python node whose handler raised once and then returned
C22_Witness ==
  \E a \in NodeIds(nodes), b \in NodeIds(nodes) :
     /\ NodeById(nodes, a).type = "http"
     /\ Returned(a) /\ ~task[a].result.success /\ task[a].invocations = 3
     /\ NodeById(nodes, b).type = "python"
     /\ Returned(b) /\ task[b].result.success /\ task[b].invocations = 2

\* the success field of what a handler returned to execute_node_task
HandlerReportedFailure(id) ==
  /\ Returned(id)
  /\ task[id].last = "returned"
  /\ HasKey(task[id].result.output, "success")
  /\ task[id].result.output.dict["success"].scalar = "false"

\* C30 (SpecDispatch), as claimed: a node whose handler returned success =
\* false has a result with success = false, and a run that ends completed
\* has no such node.
C30_ReturnedFailureFailsRun ==
  /\ \A id \in NodeIds(nodes) :
        HandlerReportedFailure(id) => ~task[id].result.success
  /\ (pc = "done" /\ status = "completed") =>
        \A id \in NodeIds(nodes) : ~HandlerReportedFailure(id)

(* ---- claims about the legacy flow (SpecLegacy) ---- *)
\* the nodes a connection leads to from node id
Targets(id) ==
  {connections[i].toNodeId :
     i \in {j \in 1..Len(connections) : connections[j].fromNodeId = id}}

\* C27 (SpecLegacy): a step that executes a node without handler stores a
\* result with success = true whose outputData is the node's input, hands
\* the same input on as the node's output, selects every node a connection
\* leads to from it and leaves the flow walking; a node executed from such a
\* node gets that node's input as its own; a node without handler never gets
\* an error log row; and a run that failed on a handler exception has an
\* error log row of a node whose type has a handler.
C27_LegacyPassThrough ==
  /\ [][Len(call_stack') = Len(call_stack) + 1 =>
          LET f == call_stack'[Len(call_stack')]
          IN /\ (f.node_id \in Unregistered) =>
                  /\ HasKey(node_results'[f.node_id], "success")
                  /\ node_results'[f.node_id].dict["success"] = Scalar("true")
                  /\ HasKey(node_results'[f.node_id], "outputData")
                  /\ node_results'[f.node_id].dict["outputData"] = f.input_data
                  /\ f.output_data = f.input_data
                  /\ Range(f.next_nodes) = Targets(f.node_id)
                  /\ pc' = "walk"
             /\ (/\ Len(call_stack) > 0
                 /\ call_stack[Len(call_stack)].node_id \in Unregistered) =>
                  f.input_data = call_stack[Len(call_stack)].input_data]_vars
  /\ [](\A id \in Unregistered : "error" \notin Range(execution_logs[id]))
  /\ []((pc = "done" /\ status = "failed" /\ error = HandlerException) =>
          \E id \in NodeIds(nodes) \ Unregistered :
             "error" \in Range(execution_logs[id]))

\* a manual input node feeds a node without handler, which feeds a third
\* node: the third node is being executed with the manual input's output
C27_Witness ==
  /\ Len(call_stack) = 3
  /\ NodeById(nodes, call_stack[1].node_id).type = "manualInput"
  /\ call_stack[2].node_id \in Unregistered
  /\ call_stack[2].input_data = call_stack[1].output_data
  /\ call_stack[2].input_data # None
  /\ call_stack[3].input_data = call_stack[2].input_data
  /\ call_stack[3].node_id \notin Unregistered

\* config of a node with inputVarValue set to v
Seeded(node, v) ==
  DictSet(IF node.config = None THEN EmptyDict ELSE node.config, "inputVarValue", v)

\* C28 (SpecLegacy): no step changes the connections, the number of nodes,
\* or the id or type of a node; a step changes a node only before any node
\* is executed, only when the node is a manualInput node whose id is a key
\* of the inputs, and then it sets the config's inputVarValue to that input;
\* and the step that prepares the walk does so for every such node.
C28_GraphReadOnly ==
  [][/\ connections' = connections
     /\ Len(nodes') = Len(nodes)
     /\ \A i \in 1..Len(nodes) :
          /\ nodes'[i].id = nodes[i].id
          /\ nodes'[i].type = nodes[i].type
          /\ (nodes'[i] # nodes[i]) =>
                /\ pc = "parse"
                /\ \A id \in NodeIds(nodes) : execution_logs[id] = <<>>
                /\ nodes[i].type = "manualInput"
                /\ HasKey(inputs, ToString(nodes[i].id))
          /\ (/\ pc = "parse" /\ pc' # "parse"
              /\ nodes[i].type = "manualInput"
              /\ HasKey(inputs, ToString(nodes[i].id))) =>
                nodes'[i].config = Seeded(nodes[i], inputs.dict[ToString(nodes[i].id)])]_vars

\* the run has ended: the manual input node named in the inputs carries the
\* input value in place of its stored one; a manual input node that is not
\* named and a node of another type keep their stored config
C28_Witness ==
  /\ pc = "done"
  /\ Len(nodes) = 3
  /\ HasKey(inputs, "1")
  /\ nodes[1].type = "manualInput"
  /\ nodes[1].config = Dict([k \in {"inputVarValue"} |-> Scalar("new")])
  /\ nodes[2].type = "manualInput"
  /\ nodes[2].config = Dict([k \in {"inputVarValue"} |-> Scalar("old")])
  /\ nodes[3].type = "condition"
  /\ nodes[3].config = Dict([k \in {"inputVarValue"} |-> Scalar("old")])
  /\ \E id \in NodeIds(nodes) : Len(execution_logs[id]) > 0

(* ---- claims about the stored run and the status surface (Spec) ---- *)
\* C33 (Spec), as claimed: a row whose status is completed, failed or
\* cancelled has completedAt set, and a row whose status is running, or
\* terminal once the flow has started, has startedAt set.
C33_TimestampsSet ==
  /\ status \in TerminalStatus => completedAt
  /\ (status = "running" \/ (status \in TerminalStatus /\ pc # "pending")) =>
        startedAt

\* C38 (Spec), as claimed: when the flow has ended and every node of a
\* non-empty workflow was dispatched and succeeded, the status surface
\* reports completedNodes = totalNodes and percentage 100; in every state
\* the percentage is between 0 and 100 and completedNodes + failedNodes is
\* at most totalNodes.
C38_ProgressNumbers ==
  LET progress == ProgressOf(execution_logs)
  IN /\ (/\ pc = "done"
         /\ Len(nodes) > 0
         /\ \A id \in NodeIds(nodes) : Returned(id) /\ task[id].result.success) =>
           (progress.completedNodes = progress.totalNodes /\ progress.percentage = 100)
     /\ progress.percentage \in 0..100
     /\ progress.completedNodes + progress.failedNodes <= progress.totalNodes

(* ---- claims about failed parents (SpecData) ---- *)
\* every connection into id comes from a node that returned a failure
AllParentsFailed(id) ==
  /\ HasIncoming(id)
  /\ \A i \in 1..Len(connections) :
        connections[i].toNodeId = id =>
           /\ Returned(connections[i].fromNodeId)
           /\ ~task[connections[i].fromNodeId].result.success

\* C34 (SpecData): a dispatched node all of whose parents failed was
\* dispatched with the empty mapping as its input, and when the flow of a
\* well-formed graph has ended every node all of whose parents failed has
\* been dispatched and has returned.
C34_FailedParentsGiveEmptyInput ==
  \A id \in NodeIds(nodes) :
     AllParentsFailed(id) =>
        /\ Dispatched(id) => task[id].input = EmptyDict
        /\ (pc = "done" /\ GraphOk) => Returned(id)

\* the flow has ended; a node with two connections from two failed parents
\* has run with the empty mapping and has returned a result
C34_Witness ==
  \E id \in NodeIds(nodes) :
     /\ pc = "done"
     /\ AllParentsFailed(id)
     /\ Cardinality({connections[i].fromNodeId :
                       i \in {j \in 1..Len(connections) : connections[j].toNodeId = id}}) = 2
     /\ Returned(id) /\ task[id].result.success
     /\ task[id].input = EmptyDict

(* ---- claims about the legacy walk (SpecMultiPath, SpecLegacy, SpecLegacyLive) ---- *)
\* number of times the legacy flow has executed node id: its running rows
Executions(id) ==
  Cardinality({i \in 1..Len(execution_logs[id]) : execution_logs[id][i] = "running"})

\* C35 (SpecMultiPath), as claimed: no node is executed more than once in a
\* run of the legacy flow.
C35_LegacyAtMostOnce == \A id \in NodeIds(nodes) : Executions(id) <= 1

\* some node has an error log row
SomeErrorRow == \E id \in NodeIds(nodes) : "error" \in Range(execution_logs[id])

\* C36 (SpecLegacyLive): every run of the legacy flow, on a graph with or
\* without a cycle, ends: from some point on the flow is at its end and the
\* stored status is completed or failed.
C36_LegacyTerminates == <>[](pc = "done" /\ status \in {"completed", "failed"})

\* a run on a graph with a cycle has ended failed on the recursion limit,
\* after it executed a node of the cycle more than once
C36_Witness ==
  /\ pc = "done"
  /\ status = "failed"
  /\ error = RecursionError
  /\ ~Acyclic(nodes, connections)
  /\ \E id \in NodeIds(nodes) : Executions(id) >= 2

LabelledOutput(label) ==
  LET c == connections[CHOOSE i \in 1..Len(connections) :
                          connections[i].outputType = label]
  IN OutputDataOf(ParentResult(fn_args.parent_results, c.fromNodeId).output)

\* C31 (SpecJoin), as claimed: when the join handler has returned for a
\* node fed by two successful parents over connections labelled A and B,
\* its outputData is the A parent's records followed by the B parent's.
C31_JoinConcat ==
  pc = "returned" =>
     /\ ~fn_ret.outcome.raised
     /\ OutputDataOf(fn_ret.outcome.ret) =
          ListConcat(LabelledOutput("A"), LabelledOutput("B"))

(***************************************************************************)
(* The trigger surface (api_service.py, SpecTrigger): POST                 *)
(* /api/workflows/execute creates the execution row and schedules          *)
(* execute_workflow_background, which calls one of the two flows.          *)
(* fn_args holds the arguments the background task was scheduled with.     *)
(***************************************************************************)
TriggerMaxNodes == 2
TriggerMaxConns == 1

\* request.mode: absent (written "") or one of the two names
RequestModes == {"", "optimized", "legacy"}

\* api_service.py line 123: mode=request.mode or "optimized"
ModeOf(m) == IF m = "" THEN "optimized" ELSE m

\* the parameters of the two flows that have no default value
RequiredParams(flow) ==
  IF flow = "workflow_flow_optimized"
  THEN {"workflow_id", "execution_id", "workflow_data", "inputs"}
  ELSE {"workflow_id", "execution_id"}

\* every parameter of the two flows
FlowParams(flow) ==
  IF flow = "workflow_flow_optimized"
  THEN {"workflow_id", "execution_id", "workflow_data", "inputs"}
  ELSE {"workflow_id", "execution_id", "inputs", "organization_id"}

\* the keyword arguments execute_workflow_background passes (lines 161-173)
SuppliedArgs(flow) ==
  IF flow = "workflow_flow_optimized"
  THEN {"workflow_id", "execution_id", "inputs"}
  ELSE {"workflow_id", "execution_id", "inputs", "organization_id"}

\* a call binds when every parameter without a default is supplied and
\* nothing else is
CallBinds(flow) ==
  /\ RequiredParams(flow) \subseteq SuppliedArgs(flow)
  /\ SuppliedArgs(flow) \subseteq FlowParams(flow)

\* the exception of a call that does not bind
MissingArgument == [kind |-> "missing_argument", ids |-> <<>>]

FlowOf(mode) ==
  IF mode = "optimized" THEN "workflow_flow_optimized" ELSE "execute_workflow_flow"

\* execute_workflow, lines 81-133: the stored workflow exists, the row is
\* created pending and the background task is scheduled with the mode
ExecuteWorkflow ==
  /\ pc = "request"
  /\ \E m \in RequestModes : fn_args' = [mode |-> ModeOf(m)]
  /\ status' = "pending"
  /\ pc' = "scheduled"
  /\ UNCHANGED <<legacyVars, graphVars, error, startedAt, completedAt,
                 nodeResults, exc, dependencies, layers, layer_idx,
                 layer_tasks, collect_idx, node_results, taskVars, cancelVars,
                 fn_ret>>

\* execute_workflow_background, lines 155-173: the call of the flow the mode
\* names; a call that does not bind raises before the flow's body runs
BackgroundCall ==
  /\ pc = "scheduled"
  /\ IF CallBinds(FlowOf(fn_args.mode))
     THEN pc' = "pending" /\ exc' = exc
     ELSE pc' = "background_except" /\ exc' = MissingArgument
  /\ UNCHANGED <<legacyVars, graphVars, rowVars, dependencies, layers,
                 layer_idx, layer_tasks, collect_idx, node_results, taskVars,
                 cancelVars, fnVars>>

\* lines 177-183: update_execution(execution_id, status="failed", error=str(e))
BackgroundExcept ==
  /\ pc = "background_except"
  /\ status' = "failed"
  /\ error' = exc
  /\ completedAt' = TRUE
  /\ pc' = "done"
  /\ UNCHANGED <<legacyVars, graphVars, startedAt, nodeResults, exc,
                 dependencies, layers, layer_idx, layer_tasks, collect_idx,
                 node_results, taskVars, cancelVars, fnVars>>

\* the body of execute_workflow_flow, entered by a call that bound
BackgroundLegacy ==
  /\ pc \notin {"request", "scheduled", "background_except"}
  /\ fn_args.mode = "legacy"
  /\ NextLegacy

InitTrigger ==
  /\ \E n \in 0..TriggerMaxNodes :
       /\ nodes \in [1..n -> {NodeWithConfig(i, t, c) :
                               i \in 1..n, t \in LegacyTypes, c \in LegacyConfigs}]
       /\ \A i \in 1..n : nodes[i].id = i
       /\ connections \in
            BoundedSeq({Conn(u, v, "", "") : u \in 1..n, v \in 1..n},
                       TriggerMaxConns)
  /\ inputs \in LegacyInputs
  /\ status = "none"
  /\ pc = "request"
  /\ fn_args = <<>>
  /\ InitRunLocals

NextTrigger ==
  \/ ExecuteWorkflow
  \/ BackgroundCall
  \/ BackgroundExcept
  \/ BackgroundLegacy

SpecTrigger == InitTrigger /\ [][NextTrigger]_vars

\* C32: a run in mode "optimized" on an acyclic workflow whose handlers all
\* succeed ends with every node of the workflow dispatched and with status
\* completed.
C32_OptimizedRunCompletes ==
  (/\ pc = "done"
   /\ fn_args.mode = "optimized"
   /\ Acyclic(nodes, connections)
   /\ \A id \in NodeIds(nodes) : task[id].last # "raised")
    => (/\ status = "completed"
        /\ \A id \in NodeIds(nodes) : Dispatched(id))

====
